---- MODULE Spec2Model ----
(***************************************************************************)
(* A model of web30's fee-market transaction pipeline                      *)
(* (Web3::send_transaction, src/src/client.rs), of the confirmation waiter *)
(* (Web3::eth_wait_for_transaction) and of the Uniswap swap executor       *)
(* (Web3::swap_uniswap, src/src/amm.rs) on the Ethereum path (tron = None).*)
(*                                                                         *)
(* Amounts are natural numbers.  An f32 multiplier is carried in tenths    *)
(* (12 stands for 1.2f32); every product the model forms is far below      *)
(* 2^24, where `(v as f32 * m) as u128` is the truncated exact product.    *)
(***************************************************************************)
EXTENDS Integers, Sequences, FiniteSets, TLC

VARIABLES
    check_sync,   \* Web3.check_sync, fixed at construction
    node,         \* what the remote node answers: balance, nonce, base fee,
                  \* quote, and the order in which it answers the four
                  \* initial reads of send_transaction
    st,           \* the locals of the running send_transaction call
    reqs,         \* the JSON-RPC methods requested so far, in order
    sent,         \* the transactions handed to eth_sendRawTransaction, in order
    wt,           \* the locals of the running eth_wait_for_transaction call,
                  \* with what its latest request answered (last) and when
                  \* its latest lookup was issued (asked)
    sw,           \* the locals of the running swap_uniswap / wrap_eth call,
                  \* with the options as the caller gave them (given) and
                  \* whether the router's allowance was looked up (checked)
    calc,         \* a piece of the library's arithmetic evaluated on its own:
                  \* the function, its arguments and, once done, its result
    nb            \* the locals of the running wait_for_next_block call, with
                  \* the heights it was answered (seen) and how many of its
                  \* requests failed (errors)

vars == <<check_sync, node, st, reqs, sent, wt, sw, calc, nb>>

\* ------------------------------------------------------------------ values

None == [some |-> FALSE, v |-> 0]
Some(x) == [some |-> TRUE, v |-> x]

ETHEREUM_INTRINSIC_GAS == 21000

\* The longest option list a caller passes.
MaxOptions == 2

Balances == {0, 20999, 21000, 30000, 100000, 20000000}
Nonces == {3}
BaseFees == {None, Some(1), Some(2)}
Estimates == {21000, 30000}

SendTxOptions ==
    {[kind |-> "GasMaxFee", v |-> 1], [kind |-> "GasPrice", v |-> 5],
     [kind |-> "GasPriorityFee", v |-> 2],
     [kind |-> "GasLimitMultiplier", v |-> 0],
     [kind |-> "GasLimitMultiplier", v |-> 20],
     [kind |-> "GasLimit", v |-> 0], [kind |-> "GasLimit", v |-> 21000],
     [kind |-> "GasLimit", v |-> 16777217],
     [kind |-> "Nonce", v |-> 7],
     [kind |-> "AccessList", v |-> 1],
     [kind |-> "GasPriceMultiplier", v |-> 5],
     [kind |-> "GasMaxFeeMultiplier", v |-> 30],
     [kind |-> "NetworkId", v |-> 1]}

OptionLists == UNION {[1..n -> SendTxOptions] : n \in 0..MaxOptions}

ReadMethods ==
    {"eth_syncing", "eth_getBalance", "eth_getTransactionCount",
     "eth_getBlockByNumber", "net_version", "eth_estimateGas", "eth_call",
     "eth_gasPrice",
     "eth_getTransactionByHash", "eth_blockNumber"}

NoResult == [status |-> "none", err |-> "", at |-> ""]
Ok == [status |-> "Ok", err |-> "", at |-> ""]
Err(kind, where) == [status |-> "Err", err |-> kind, at |-> where]

\* No arithmetic is being evaluated on its own.
NoCalc == [fn |-> "none", args |-> <<>>, done |-> FALSE, out |-> 0]

\* ------------------------------------------------- f32 and Uint256 helpers

\* Uint256::to_u128: Some for a value below 2^128, which every amount of the
\* model is.
FitsU128(v) == v \in Nat

\* f32::MANTISSA_DIGITS: an f32 keeps 24 significant bits.
F32_MANTISSA_DIGITS == 24

RECURSIVE Exp2(_)
Exp2(k) == IF k = 0 THEN 1 ELSE 2 * Exp2(k - 1)

\* The position of the leading bit of v.
RECURSIVE Log2(_)
Log2(v) == IF v < 2 THEN 0 ELSE 1 + Log2(v \div 2)

\* num / den rounded to the nearest integer, a tie to the even one.
NearestEven(num, den) ==
    LET q == num \div den
        r == num % den
    IN IF 2 * r < den THEN q
       ELSE IF 2 * r > den THEN q + 1
       ELSE IF q % 2 = 0 THEN q ELSE q + 1

\* v as f32: the nearest value of 24 significant bits.
AsF32(v) ==
    IF v < Exp2(F32_MANTISSA_DIGITS) THEN v
    ELSE LET u == Exp2(Log2(v) - (F32_MANTISSA_DIGITS - 1))
         IN NearestEven(v, u) * u

\* (v as f32 * m) as u128: v rounded to an f32, the product rounded to an f32
\* and truncated toward zero; a negative product saturates at 0.  m is in
\* tenths and stands for the f32 nearest to it, which for the values of the
\* model gives the same result.
MulF32(v, m) ==
    LET n == AsF32(v) * m
        k == Log2(n \div 10)
    IN IF n < 10 THEN 0
       ELSE IF k >= F32_MANTISSA_DIGITS - 1
       THEN LET u == Exp2(k - (F32_MANTISSA_DIGITS - 1))
            IN NearestEven(n, 10 * u) * u
       ELSE LET d == Exp2(F32_MANTISSA_DIGITS - 1 - k)
            IN NearestEven(n * d, 10) \div d

\* f32::round() as u128: half away from zero.
RoundF32(m) == IF m < 0 THEN 0 ELSE (m + 5) \div 10

\* A Uint256 of value hi * 2^128 + lo, with lo below 2^128.
U256(hi, lo) == [hi |-> hi, lo |-> lo]

\* Uint256::to_u128: Some for a value below 2^128.
to_u128(x) == IF x.hi = 0 THEN Some(x.lo) ELSE None

\* MultipliedFee rounding the product to the nearest integer.
MultipliedFeeRounded(base_fee_per_gas, gm) ==
    LET f32_gas == to_u128(base_fee_per_gas) IN
    IF f32_gas.some
    THEN U256(0, IF gm < 0 THEN 0 ELSE (f32_gas.v * gm + 5) \div 10)
    ELSE U256(base_fee_per_gas.hi * RoundF32(gm),
              base_fee_per_gas.lo * RoundF32(gm))

\* The arm of the option loop for GasPriceMultiplier and GasMaxFeeMultiplier:
\* the new max_fee_per_gas.
MultipliedFee(base_fee_per_gas, gm) ==
    LET f32_gas == to_u128(base_fee_per_gas) IN
    IF f32_gas.some
    THEN U256(0, MulF32(f32_gas.v, gm))
    ELSE U256(base_fee_per_gas.hi * RoundF32(gm),
              base_fee_per_gas.lo * RoundF32(gm))

\* ------------------------------------------------------ sync-checked reads

\* The requests of a read that first asks eth_syncing (eth_get_balance,
\* eth_get_transaction_count, eth_get_latest_block): with check_sync off
\* eth_syncing answers false without a request.
\* SyncedRead issuing the request whatever eth_syncing answered.
SyncedReadAlways(method, outcome) ==
    IF ~check_sync THEN <<method>> ELSE <<"eth_syncing", method>>

SyncedRead(method, outcome) ==
    IF ~check_sync THEN <<method>>
    ELSE IF outcome = "SyncingNode" THEN <<"eth_syncing">>
    ELSE <<"eth_syncing", method>>

ReadOutcomes == {"Ok", "JsonRpcError"} \cup (IF check_sync THEN {"SyncingNode"} ELSE {})

\* What eth_syncing is answered (the node is syncing, it is not, or the
\* request fails) and how the guarded request ends.
SyncAnswers == {"true", "false", "error"}
RequestOutcomes == {"Ok", "JsonRpcError"}

\* eth_syncing: Ok(false) with no request when check_sync is off, else the
\* node's answer.
eth_syncing(answer) ==
    IF ~check_sync THEN [requests |-> <<>>, syncing |-> "false"]
    ELSE [requests |-> <<"eth_syncing">>, syncing |-> answer]

\* match self.eth_syncing().await? { false => request_method(method, ...),
\* _ => Err(SyncingNode(...)) }
Guarded(method, answer, outcome) ==
    LET s == eth_syncing(answer) IN
    IF s.syncing = "error"
    THEN [requests |-> s.requests, result |-> Err("JsonRpcError", "eth_syncing")]
    ELSE IF s.syncing = "true"
    THEN [requests |-> s.requests, result |-> Err("SyncingNode", method)]
    ELSE [requests |-> Append(s.requests, method),
          result |-> IF outcome = "Ok" THEN Ok ELSE Err(outcome, method)]

\* The reads behind the sync guard, by the request each sends: eth_get_balance,
\* eth_get_transaction_count, eth_call, eth_block_number (through
\* eth_synced_block_number), eth_get_latest_block and eth_get_finalized_block.
GuardedReads ==
    [eth_get_balance |-> "eth_getBalance",
     eth_get_transaction_count |-> "eth_getTransactionCount",
     eth_call |-> "eth_call",
     eth_block_number |-> "eth_blockNumber",
     eth_get_latest_block |-> "eth_getBlockByNumber",
     eth_get_finalized_block |-> "eth_getBlockByNumber"]

\* eth_gas_price: the guard, eth_gasPrice, then get_base_fee_per_gas, which
\* is eth_get_latest_block behind its own guard.
EthGasPrice(answer, outcome, block_answer, block_outcome) ==
    LET g == Guarded("eth_gasPrice", answer, outcome)
        b == Guarded("eth_getBlockByNumber", block_answer, block_outcome) IN
    IF g.result # Ok THEN g
    ELSE [requests |-> g.requests \o b.requests, result |-> b.result]

\* ---------------------------------------------------------- send_transaction

StIdle ==
    [pc |-> "idle", options |-> <<>>, our_balance |-> 0, nonce |-> 0,
     base_fee_per_gas |-> None, max_fee_per_gas |-> 0,
     max_priority_fee_per_gas |-> 0, gas_limit_multiplier |-> 10,
     gas_limit_opt |-> None, gas_limit |-> 0, access_list |-> 0,
     max_fee_options |-> 0, estimates |-> 0, valid_checks |-> 0, signs |-> 0,
     caller |-> "", value |-> 0, joined |-> <<>>,
     info |-> [balance |-> 0, base_gas |-> 0, gas_required |-> 0],
     divisor |-> None, result |-> NoResult]

\* The entry of send_transaction: the defaults of its locals.
StStart(opts) ==
    [StIdle EXCEPT !.pc = "join4", !.options = opts,
                   !.max_priority_fee_per_gas = 1,
                   !.gas_limit_multiplier = 10]

StReturn(s, r) == [s EXCEPT !.pc = "ret", !.result = r]

\* return Err(Web3Error::InsufficientGas { balance, base_gas, gas_required })
InsufficientGas(s, base_gas, gas_required, where) ==
    StReturn([s EXCEPT !.info = [balance |-> s.our_balance,
                                 base_gas |-> base_gas,
                                 gas_required |-> gas_required]],
             Err("InsufficientGas", where))

\* ApplyOption with a fee multiplier scaling the max fee the loop has reached.
ApplyOptionScalesFee(s, o) ==
    CASE o.kind \in {"GasMaxFee", "GasPrice"} -> [s EXCEPT !.max_fee_per_gas = o.v]
      [] o.kind = "GasPriorityFee" -> [s EXCEPT !.max_priority_fee_per_gas = o.v]
      [] o.kind = "GasLimitMultiplier" -> [s EXCEPT !.gas_limit_multiplier = o.v]
      [] o.kind = "GasLimit" -> [s EXCEPT !.gas_limit_opt = Some(o.v)]
      [] o.kind = "Nonce" -> [s EXCEPT !.nonce = o.v]
      [] o.kind = "AccessList" -> [s EXCEPT !.access_list = o.v]
      [] o.kind \in {"GasPriceMultiplier", "GasMaxFeeMultiplier"} ->
            [s EXCEPT !.max_fee_per_gas = MulF32(s.max_fee_per_gas, o.v)]
      [] o.kind = "NetworkId" -> StReturn(s, Err("BadInput", "options"))

\* One arm of the match in the option loop; the NetworkId arm returns.
ApplyOption(s, o) ==
    CASE o.kind \in {"GasMaxFee", "GasPrice"} -> [s EXCEPT !.max_fee_per_gas = o.v]
      [] o.kind = "GasPriorityFee" -> [s EXCEPT !.max_priority_fee_per_gas = o.v]
      [] o.kind = "GasLimitMultiplier" -> [s EXCEPT !.gas_limit_multiplier = o.v]
      [] o.kind = "GasLimit" -> [s EXCEPT !.gas_limit_opt = Some(o.v)]
      [] o.kind = "Nonce" -> [s EXCEPT !.nonce = o.v]
      [] o.kind = "AccessList" -> [s EXCEPT !.access_list = o.v]
      [] o.kind \in {"GasPriceMultiplier", "GasMaxFeeMultiplier"} ->
            [s EXCEPT !.max_fee_per_gas =
                MultipliedFee(U256(0, s.base_fee_per_gas.v), o.v).lo]
      [] o.kind = "NetworkId" -> StReturn(s, Err("BadInput", "options"))

\* ApplyOptions going through the list from its end.
RECURSIVE ApplyOptionsFirstWins(_, _)
ApplyOptionsFirstWins(s, opts) ==
    IF opts = <<>> \/ s.pc = "ret" THEN s
    ELSE ApplyOptionsFirstWins(ApplyOption(s, opts[Len(opts)]),
                               SubSeq(opts, 1, Len(opts) - 1))

\* ApplyOptions refusing a NetworkId option only at the end of the list.
RECURSIVE ApplyOptionsNetworkIdLast(_, _)
ApplyOptionsNetworkIdLast(s, opts) ==
    IF opts = <<>> \/ s.pc = "ret" THEN s
    ELSE IF Head(opts).kind = "NetworkId" /\ Tail(opts) # <<>>
    THEN ApplyOptionsNetworkIdLast(s, Tail(opts))
    ELSE ApplyOptionsNetworkIdLast(ApplyOption(s, Head(opts)), Tail(opts))

\* for option in options { match option { ... } }
RECURSIVE ApplyOptions(_, _)
ApplyOptions(s, opts) ==
    IF opts = <<>> \/ s.pc = "ret" THEN s
    ELSE ApplyOptions(ApplyOption(s, Head(opts)), Tail(opts))

\* gas_limit scaled by gas_limit_multiplier.
ScaledGasLimit(gl, glm) ==
    IF FitsU128(gl) THEN MulF32(gl, glm) ELSE gl * RoundF32(glm)

\* Afford with the base-fee check dropped: every unaffordable fee is downscaled.
AffordNoBaseCheck(s) ==
    IF s.max_fee_per_gas * s.gas_limit > s.our_balance
    THEN [s EXCEPT !.max_fee_per_gas = s.our_balance \div s.gas_limit,
                   !.pc = "valid1"]
    ELSE [s EXCEPT !.pc = "valid1"]

\* Afford downscaling to the base fee instead of balance / gas_limit.
AffordToBaseFee(s) ==
    IF s.max_fee_per_gas * s.gas_limit > s.our_balance
    THEN IF s.base_fee_per_gas.v * s.gas_limit > s.our_balance
         THEN StReturn(s, Err("InsufficientGas", "afford"))
         ELSE [s EXCEPT !.max_fee_per_gas = s.base_fee_per_gas.v,
                        !.pc = "valid1"]
    ELSE [s EXCEPT !.pc = "valid1"]

\* Afford with the downscale left out: the fee of the options goes out.
AffordNoDownscale(s) ==
    IF s.max_fee_per_gas * s.gas_limit > s.our_balance
       /\ s.base_fee_per_gas.v * s.gas_limit > s.our_balance
    THEN StReturn(s, Err("InsufficientGas", "afford"))
    ELSE [s EXCEPT !.pc = "valid1"]

\* max_fee_per_gas = our_balance / gas_limit: the divisor is recorded, and a
\* zero divisor is the panic of the integer division.
Divide(s) ==
    IF s.gas_limit = 0
    THEN StReturn([s EXCEPT !.divisor = Some(0)],
                  [status |-> "Panic", err |-> "division by zero", at |-> "afford"])
    ELSE [s EXCEPT !.divisor = Some(s.gas_limit),
                   !.max_fee_per_gas = s.our_balance \div s.gas_limit,
                   !.pc = "valid1"]

\* Afford with the comparison of the fee to the balance left out: every fee
\* that passes the base-fee check is recomputed from the balance.
AffordAlwaysDivides(s) ==
    IF s.base_fee_per_gas.v * s.gas_limit > s.our_balance
    THEN InsufficientGas(s, s.base_fee_per_gas.v, s.gas_limit, "afford")
    ELSE Divide(s)

\* The balance-aware downscale: the locals after it, or the InsufficientGas
\* return.
Afford(s) ==
    IF s.max_fee_per_gas * s.gas_limit > s.our_balance
    THEN IF s.base_fee_per_gas.v * s.gas_limit > s.our_balance
         THEN InsufficientGas(s, s.base_fee_per_gas.v, s.gas_limit, "afford")
         ELSE Divide(s)
    ELSE [s EXCEPT !.pc = "valid1"]

\* An operation enters send_transaction.
SendTransaction ==
    /\ st.pc = "idle"
    /\ sw.op = "none"
    /\ \E opts \in OptionLists : st' = StStart(opts)
    /\ sw' = [sw EXCEPT !.op = "send_transaction"]
    /\ UNCHANGED <<calc, nb, check_sync, node, reqs, sent, wt>>

\* The orders in which the four initial reads (1 balance, 2 nonce, 3 base
\* fee, 4 chain id) can complete; InOrder is the order of issue.
Orders == {o \in [1..4 -> 1..4] : \A i, j \in 1..4 : o[i] = o[j] => i = j}
InOrder == <<1, 2, 3, 4>>

\* Joined reporting the failure that completed first.
JoinedFirstDone(order, outcomes) ==
    IF \A i \in 1..4 : outcomes[i] = "Ok" THEN "Ok"
    ELSE LET k == CHOOSE i \in 1..4 :
                    /\ outcomes[order[i]] # "Ok"
                    /\ \A j \in 1..(i - 1) : outcomes[order[j]] = "Ok"
         IN outcomes[order[k]]

\* join4(...).await, then (our_balance?, nonce?, base_fee_per_gas?, chain_id?):
\* every read has completed, in whatever order, and the first Err in argument
\* order is returned.
Joined(order, outcomes) ==
    IF outcomes[1] # "Ok" THEN outcomes[1]
    ELSE IF outcomes[2] # "Ok" THEN outcomes[2]
    ELSE IF outcomes[3] # "Ok" THEN outcomes[3]
    ELSE outcomes[4]

\* join4 of the four initial reads, then the four `?` in order. A call that
\* returns here has not looked at its options.
Join4 ==
    /\ st.pc = "join4"
    /\ \E b \in ReadOutcomes, n \in ReadOutcomes, f \in ReadOutcomes,
          c \in {"Ok", "JsonRpcError", "BadResponse"} :
        /\ reqs' = reqs \o SyncedRead("eth_getBalance", b)
                        \o SyncedRead("eth_getTransactionCount", n)
                        \o SyncedRead("eth_getBlockByNumber", f)
                        \o <<"net_version">>
        /\ LET e == Joined(node.order, <<b, n, f, c>>) IN
           st' = IF e # "Ok"
                 THEN StReturn([st EXCEPT !.options = <<>>,
                                          !.joined = <<b, n, f, c>>],
                               Err(e, "join4"))
                 ELSE [st EXCEPT !.pc = "london",
                                 !.our_balance = node.balance,
                                 !.nonce = node.nonce,
                                 !.base_fee_per_gas = node.base_fee]
    /\ UNCHANGED <<calc, nb, check_sync, node, sent, wt, sw>>

\* CheckChain without the intrinsic-gas check.
CheckChainNoIntrinsic ==
    /\ st.pc = "london"
    /\ st' = IF ~st.base_fee_per_gas.some
             THEN StReturn(st, Err("PreLondon", "london"))
             ELSE [st EXCEPT !.pc = "options",
                             !.max_fee_per_gas = st.base_fee_per_gas.v * 2]
    /\ UNCHANGED <<calc, nb, check_sync, node, reqs, sent, wt, sw>>

\* CheckChain looking at the balance before the base fee.
CheckChainBalanceFirst ==
    /\ st.pc = "london"
    /\ st' = IF st.our_balance = 0 \/ st.our_balance < ETHEREUM_INTRINSIC_GAS
             THEN InsufficientGas(st, ETHEREUM_INTRINSIC_GAS,
                                  ETHEREUM_INTRINSIC_GAS, "intrinsic")
             ELSE IF ~st.base_fee_per_gas.some
             THEN StReturn(st, Err("PreLondon", "london"))
             ELSE [st EXCEPT !.pc = "options",
                             !.max_fee_per_gas = st.base_fee_per_gas.v * 2]
    /\ UNCHANGED <<calc, nb, check_sync, node, reqs, sent, wt, sw>>

\* CheckChain with the base fee itself for the default max fee.
CheckChainFeeAtBase ==
    /\ st.pc = "london"
    /\ st' = IF ~st.base_fee_per_gas.some
             THEN StReturn(st, Err("PreLondon", "london"))
             ELSE IF st.our_balance = 0 \/ st.our_balance < ETHEREUM_INTRINSIC_GAS
             THEN InsufficientGas(st, ETHEREUM_INTRINSIC_GAS,
                                  ETHEREUM_INTRINSIC_GAS, "intrinsic")
             ELSE [st EXCEPT !.pc = "options",
                             !.max_fee_per_gas = st.base_fee_per_gas.v]
    /\ UNCHANGED <<calc, nb, check_sync, node, reqs, sent, wt, sw>>

\* The PreLondon check, the default max fee and the intrinsic-gas check.
CheckChain ==
    /\ st.pc = "london"
    /\ st' = IF ~st.base_fee_per_gas.some
             THEN StReturn(st, Err("PreLondon", "london"))
             ELSE IF st.our_balance = 0 \/ st.our_balance < ETHEREUM_INTRINSIC_GAS
             THEN InsufficientGas(st, ETHEREUM_INTRINSIC_GAS,
                                  ETHEREUM_INTRINSIC_GAS, "intrinsic")
             ELSE [st EXCEPT !.pc = "options",
                             !.max_fee_per_gas = st.base_fee_per_gas.v * 2]
    /\ UNCHANGED <<calc, nb, check_sync, node, reqs, sent, wt, sw>>

\* The option loop, then encode_call and the assembly of the draft.
Options ==
    /\ st.pc = "options"
    /\ LET s == ApplyOptions(st, st.options) IN
         \E encoded \in BOOLEAN :
            st' = IF s.pc = "ret" THEN s
                  ELSE IF ~encoded THEN StReturn(s, Err("BadInput", "encode_call"))
                  ELSE [s EXCEPT !.pc = "estimate"]
    /\ UNCHANGED <<calc, nb, check_sync, node, reqs, sent, wt, sw>>

\* EstimateGas asking the node for an estimate whatever the options, and
\* keeping the explicit gas limit where there is one.
EstimateGasAlways ==
    /\ st.pc = "estimate"
    /\ reqs' = reqs \o (IF check_sync THEN <<"eth_syncing">> ELSE <<>>)
                    \o <<"eth_estimateGas">>
    /\ \/ \E g \in Estimates :
             st' = [st EXCEPT !.pc = "scale",
                              !.gas_limit = IF st.gas_limit_opt.some
                                            THEN st.gas_limit_opt.v ELSE g,
                              !.estimates = st.estimates + 1]
       \/ st' = StReturn([st EXCEPT !.estimates = st.estimates + 1],
                         Err("JsonRpcError", "estimate"))
    /\ UNCHANGED <<calc, nb, check_sync, node, sent, wt, sw>>

\* The explicit gas limit, or eth_estimateGas on the draft.
EstimateGas ==
    /\ st.pc = "estimate"
    /\ \/ /\ st.gas_limit_opt.some
          /\ st' = [st EXCEPT !.pc = "scale", !.gas_limit = st.gas_limit_opt.v]
          /\ UNCHANGED reqs
       \/ /\ ~st.gas_limit_opt.some
          /\ reqs' = reqs \o (IF check_sync THEN <<"eth_syncing">> ELSE <<>>)
                          \o <<"eth_estimateGas">>
          /\ \/ \E g \in Estimates :
                   st' = [st EXCEPT !.pc = "scale", !.gas_limit = g,
                                    !.estimates = st.estimates + 1]
             \/ st' = StReturn([st EXCEPT !.estimates = st.estimates + 1],
                               Err("JsonRpcError", "estimate"))
    /\ UNCHANGED <<calc, nb, check_sync, node, sent, wt, sw>>

\* The gas-limit multiplier and the balance-aware downscale.
ScaleAndAfford ==
    /\ st.pc = "scale"
    /\ st' = Afford([st EXCEPT !.gas_limit =
                        ScaledGasLimit(st.gas_limit, st.gas_limit_multiplier),
                               !.max_fee_options = st.max_fee_per_gas])
    /\ UNCHANGED <<calc, nb, check_sync, node, reqs, sent, wt, sw>>

\* IsValid with the result of the check after signing ignored.
IsValidSecondIgnored ==
    /\ st.pc \in {"valid1", "valid2"}
    /\ \E valid \in BOOLEAN :
         st' = IF ~valid /\ st.pc = "valid1" THEN StReturn(st, Err("BadInput", st.pc))
               ELSE [st EXCEPT !.valid_checks = st.valid_checks + (IF valid THEN 1 ELSE 0),
                               !.pc = IF st.pc = "valid1" THEN "sign1" ELSE "sign2"]
    /\ UNCHANGED <<calc, nb, check_sync, node, reqs, sent, wt, sw>>

\* transaction.is_valid() before and after signing (clarity decides it).
IsValid ==
    /\ st.pc \in {"valid1", "valid2"}
    /\ \E valid \in BOOLEAN :
         st' = IF ~valid THEN StReturn(st, Err("BadInput", st.pc))
               ELSE [st EXCEPT !.valid_checks = st.valid_checks + 1,
                               !.pc = IF st.pc = "valid1" THEN "sign1" ELSE "sign2"]
    /\ UNCHANGED <<calc, nb, check_sync, node, reqs, sent, wt, sw>>

\* transaction.sign(&secret, None), at both places of the source.
Sign ==
    /\ st.pc \in {"sign1", "sign2"}
    /\ st' = [st EXCEPT !.signs = st.signs + 1,
                        !.pc = IF st.pc = "sign1" THEN "valid2" ELSE "send"]
    /\ UNCHANGED <<calc, nb, check_sync, node, reqs, sent, wt, sw>>

\* The transaction as it goes out.
Outgoing(s) ==
    [nonce |-> s.nonce, max_fee_per_gas |-> s.max_fee_per_gas,
     max_priority_fee_per_gas |-> s.max_priority_fee_per_gas,
     gas_limit |-> s.gas_limit, access_list |-> s.access_list,
     max_fee_options |-> s.max_fee_options,
     balance |-> s.our_balance, base_fee |-> s.base_fee_per_gas.v,
     valid_checks |-> s.valid_checks, signs |-> s.signs, caller |-> s.caller,
     value |-> s.value]

\* Broadcast handing the transaction to the node before the second is_valid
\* check has answered.
BroadcastThenValidate ==
    /\ st.pc = "send"
    /\ reqs' = Append(reqs, "eth_sendRawTransaction")
    /\ sent' = Append(sent, Outgoing(st))
    /\ \E valid \in BOOLEAN :
         st' = StReturn(st, IF valid THEN Ok ELSE Err("BadInput", "valid2"))
    /\ UNCHANGED <<calc, nb, check_sync, node, wt, sw>>

\* eth_send_raw_transaction(transaction.to_bytes())
Broadcast ==
    /\ st.pc = "send"
    /\ reqs' = Append(reqs, "eth_sendRawTransaction")
    /\ sent' = Append(sent, Outgoing(st))
    /\ \E accepted \in BOOLEAN :
         st' = StReturn(st, IF accepted THEN Ok ELSE Err("JsonRpcError", "send"))
    /\ UNCHANGED <<calc, nb, check_sync, node, wt, sw>>

Pipeline ==
    \/ Join4 \/ CheckChain \/ Options \/ EstimateGas \/ ScaleAndAfford
    \/ IsValid \/ Sign \/ Broadcast

\* ------------------------------------------------- eth_wait_for_transaction

\* The longest timeout a caller passes, in seconds, and the highest block the
\* node reports.
MaxTimeout == 2
MaxBlock == 3

Timeouts == 0..MaxTimeout
Blocks == 0..MaxBlock
BlocksToWait == {None} \cup {Some(n) : n \in 0..MaxBlock}

WtIdle ==
    [pc |-> "idle", blocks_to_wait |-> None, timeout |-> 0, outer |-> FALSE,
     elapsed |-> 0, polls |-> 0, tx_block |-> None, current_block |-> None,
     subtracted |-> FALSE, asked |-> 0, last |-> "", result |-> NoResult]

\* let start = Instant::now(); `outer` says the call runs under the caller's
\* tokio timeout of the same length.
WtStart(blocks_to_wait, timeout, outer) ==
    [WtIdle EXCEPT !.pc = "poll", !.blocks_to_wait = blocks_to_wait,
                   !.timeout = timeout, !.outer = outer]

WtReturn(w, r) == [w EXCEPT !.pc = "ret", !.result = r]

\* DepthCheck subtracting before it compares current_block with blocks_to_wait.
DepthCheckUnguarded(current_block, blocks_to_wait, tx_block) ==
    [ok |-> current_block - blocks_to_wait >= tx_block, subtracted |-> TRUE]

\* DepthCheck asking for one block more than blocks_to_wait.
DepthCheckStrict(current_block, blocks_to_wait, tx_block) ==
    [ok |-> /\ current_block > blocks_to_wait
            /\ current_block - blocks_to_wait > tx_block,
     subtracted |-> current_block > blocks_to_wait]

\* current_block > blocks_to_wait && current_block - blocks_to_wait >= tx_block:
\* the answer, and whether && went on to evaluate the subtraction.
DepthCheck(current_block, blocks_to_wait, tx_block) ==
    [ok |-> /\ current_block > blocks_to_wait
            /\ current_block - blocks_to_wait >= tx_block,
     subtracted |-> current_block > blocks_to_wait]

\* Found taking a transaction the node knows but no block holds yet for an
\* included one.
FoundPending(w, block_number) ==
    LET x == [w EXCEPT !.tx_block = block_number,
                       !.last = IF block_number.some THEN "included"
                                ELSE "pending"] IN
    IF ~w.blocks_to_wait.some THEN WtReturn(x, Ok)
    ELSE IF ~block_number.some THEN [x EXCEPT !.pc = "deadline"]
    ELSE [x EXCEPT !.pc = "depth"]

\* Ok(Some(transaction)): without a block_number the transaction is pending
\* and the loop goes on; with one, and no blocks_to_wait, the wait is over.
Found(w, block_number) ==
    IF ~block_number.some THEN [w EXCEPT !.pc = "deadline", !.last = "pending"]
    ELSE IF ~w.blocks_to_wait.some
    THEN WtReturn([w EXCEPT !.tx_block = block_number, !.last = "included"], Ok)
    ELSE [w EXCEPT !.tx_block = block_number, !.last = "included",
                   !.pc = "depth"]

\* A caller enters eth_wait_for_transaction.
EthWaitForTransaction ==
    /\ wt.pc = "idle"
    /\ sw.op = "none"
    /\ \E n \in BlocksToWait, t \in Timeouts : wt' = WtStart(n, t, FALSE)
    /\ sw' = [sw EXCEPT !.op = "eth_wait_for_transaction"]
    /\ UNCHANGED <<calc, nb, check_sync, node, st, reqs, sent>>

\* One turn of the loop up to the depth check: the delay of a second (and what
\* the requests take), then eth_get_transaction_by_hash.
Poll ==
    /\ wt.pc = "poll"
    /\ reqs' = reqs \o (IF check_sync THEN <<"eth_syncing">> ELSE <<>>)
                    \o <<"eth_getTransactionByHash">>
    /\ \E late \in 0..1 :
        LET w == [wt EXCEPT !.elapsed = wt.elapsed + 1 + late,
                            !.asked = wt.elapsed + 1,
                            !.polls = wt.polls + 1,
                            !.tx_block = None, !.current_block = None,
                            !.subtracted = FALSE] IN
        \/ wt' = WtReturn([w EXCEPT !.last = "error"],
                          Err("JsonRpcError", "lookup"))
        \/ wt' = [w EXCEPT !.pc = "deadline", !.last = "not_found"]  \* Ok(None)
        \/ \E b \in {None} \cup {Some(x) : x \in Blocks} : wt' = Found(w, b)
    /\ UNCHANGED <<calc, nb, check_sync, node, st, sent, sw>>

\* Depth going on to the next poll when eth_block_number fails.
DepthErrorRetried ==
    /\ wt.pc = "depth"
    /\ \E o \in ReadOutcomes :
        /\ reqs' = reqs \o SyncedRead("eth_blockNumber", o)
        /\ \/ /\ o # "Ok"
              /\ wt' = [wt EXCEPT !.last = "error", !.pc = "deadline"]
           \/ /\ o = "Ok"
              /\ \E c \in Blocks :
                   LET d == DepthCheck(c, wt.blocks_to_wait.v, wt.tx_block.v)
                       w == [wt EXCEPT !.current_block = Some(c),
                                       !.subtracted = d.subtracted,
                                       !.last = IF d.ok THEN "deep"
                                                ELSE "shallow"] IN
                   wt' = IF d.ok THEN WtReturn(w, Ok)
                         ELSE [w EXCEPT !.pc = "deadline"]
    /\ UNCHANGED <<calc, nb, check_sync, node, st, sent, sw>>

\* eth_block_number()? and the depth check.
Depth ==
    /\ wt.pc = "depth"
    /\ \E o \in ReadOutcomes :
        /\ reqs' = reqs \o SyncedRead("eth_blockNumber", o)
        /\ \/ /\ o # "Ok"
              /\ wt' = WtReturn([wt EXCEPT !.last = "error"],
                                Err(o, "block_number"))
           \/ /\ o = "Ok"
              /\ \E c \in Blocks :
                   LET d == DepthCheck(c, wt.blocks_to_wait.v, wt.tx_block.v)
                       w == [wt EXCEPT !.current_block = Some(c),
                                       !.subtracted = d.subtracted,
                                       !.last = IF d.ok THEN "deep"
                                                ELSE "shallow"] IN
                   wt' = IF d.ok THEN WtReturn(w, Ok)
                         ELSE [w EXCEPT !.pc = "deadline"]
    /\ UNCHANGED <<calc, nb, check_sync, node, st, sent, sw>>

\* Deadline timing out as soon as the timeout is reached.
DeadlineAtLeast ==
    /\ wt.pc = "deadline"
    /\ wt' = IF wt.elapsed >= wt.timeout
             THEN WtReturn(wt, Err("TransactionTimeout", "deadline"))
             ELSE [wt EXCEPT !.pc = "poll"]
    /\ UNCHANGED <<calc, nb, check_sync, node, st, reqs, sent, sw>>

\* if Instant::now() - start > timeout { return Err(TransactionTimeout) }
Deadline ==
    /\ wt.pc = "deadline"
    /\ wt' = IF wt.elapsed > wt.timeout
             THEN WtReturn(wt, Err("TransactionTimeout", "deadline"))
             ELSE [wt EXCEPT !.pc = "poll"]
    /\ UNCHANGED <<calc, nb, check_sync, node, st, reqs, sent, sw>>

\* The caller's future_timeout(timeout, ...) expires while the wait is
\* suspended.
Elapsed ==
    /\ wt.outer
    /\ wt.pc \in {"poll", "depth"}
    /\ wt.elapsed >= wt.timeout
    /\ wt' = WtReturn(wt, Err("Elapsed", "future_timeout"))
    /\ UNCHANGED <<calc, nb, check_sync, node, st, reqs, sent, sw>>

Waiter == Poll \/ Depth \/ Deadline

\* -------------------------------------------------------- wait_for_next_block

\* The most requests one wait_for_next_block call is followed through.
MaxPolls == 3

NbIdle ==
    [pc |-> "idle", timeout |-> 0, elapsed |-> 0, last_height |-> None,
     polls |-> 0, seen |-> <<>>, errors |-> 0, last |-> "",
     result |-> NoResult]

NoBlockProduced(timeout) ==
    [status |-> "Err", err |-> "NoBlockProduced", at |-> "wait_for_next_block",
     time |-> timeout]

\* let start = Instant::now(); let mut last_height = None;
WaitForNextBlock ==
    /\ nb.pc = "idle" /\ st.pc = "idle" /\ wt.pc = "idle" /\ sw.op = "none"
    /\ \E t \in Timeouts : nb' = [NbIdle EXCEPT !.pc = "loop", !.timeout = t]
    /\ UNCHANGED <<calc, check_sync, node, st, reqs, sent, wt, sw>>

\* while Instant::now() - start < timeout { ... }
\* Err(Web3Error::NoBlockProduced { time: timeout })
NextBlockLoop ==
    /\ nb.pc = "loop"
    /\ nb' = IF nb.elapsed < nb.timeout
             THEN [nb EXCEPT !.pc = "poll"]
             ELSE [nb EXCEPT !.pc = "ret", !.result = NoBlockProduced(nb.timeout)]
    /\ UNCHANGED <<calc, check_sync, node, st, reqs, sent, wt, sw>>

\* NextBlockPoll returning the error of a failed request.
NextBlockPollErrorExits ==
    /\ nb.pc = "poll" /\ nb.polls < MaxPolls
    /\ \E o \in ReadOutcomes, n \in Blocks, d \in 0..1 :
         LET w == [nb EXCEPT !.polls = @ + 1, !.elapsed = @ + d] IN
         /\ reqs' = reqs \o SyncedRead("eth_blockNumber", o)
         /\ nb' = IF o # "Ok"
                  THEN [w EXCEPT !.errors = @ + 1, !.last = "error",
                                 !.pc = "ret",
                                 !.result = Err(o, "eth_block_number")]
                  ELSE IF ~nb.last_height.some
                  THEN [w EXCEPT !.seen = Append(@, n), !.last = "ok",
                                 !.last_height = Some(n), !.pc = "loop"]
                  ELSE IF n > nb.last_height.v
                  THEN [w EXCEPT !.seen = Append(@, n), !.last = "ok",
                                 !.pc = "ret", !.result = Ok]
                  ELSE [w EXCEPT !.seen = Append(@, n), !.last = "ok",
                                 !.pc = "loop"]
    /\ UNCHANGED <<calc, check_sync, node, st, sent, wt, sw>>

\* match (self.eth_block_number().await, last_height): the first height is
\* kept, a later one above it returns Ok(()), an error is dropped; the
\* request takes some time and the loop goes round with no delay.
NextBlockPoll ==
    /\ nb.pc = "poll" /\ nb.polls < MaxPolls
    /\ \E o \in ReadOutcomes, n \in Blocks, d \in 0..1 :
         LET w == [nb EXCEPT !.polls = @ + 1, !.elapsed = @ + d] IN
         /\ reqs' = reqs \o SyncedRead("eth_blockNumber", o)
         /\ nb' = IF o # "Ok"
                  THEN [w EXCEPT !.errors = @ + 1, !.last = "error",
                                 !.pc = "loop"]
                  ELSE IF ~nb.last_height.some
                  THEN [w EXCEPT !.seen = Append(@, n), !.last = "ok",
                                 !.last_height = Some(n), !.pc = "loop"]
                  ELSE IF n > nb.last_height.v
                  THEN [w EXCEPT !.seen = Append(@, n), !.last = "ok",
                                 !.pc = "ret", !.result = Ok]
                  ELSE [w EXCEPT !.seen = Append(@, n), !.last = "ok",
                                 !.pc = "loop"]
    /\ UNCHANGED <<calc, check_sync, node, st, sent, wt, sw>>

\* ------------------------------------------- swap_uniswap, wrap_eth and kin

TT24M1 == 16777215
DEFAULT_GAS_LIMIT_MULT == 12

\* The longest option list a caller hands to a swap.
MaxSwapOptions == 1

\* A sqrt price limit v stands for v * 2^96, so that it decodes to the spot
\* price v * v; `wide` marks a value above TT160M1 = 2^160 - 1.
Limit(x) == [some |-> TRUE, v |-> x, wide |-> FALSE]
NoLimit == [some |-> FALSE, v |-> 0, wide |-> FALSE]
WideLimit == [some |-> TRUE, v |-> 1, wide |-> TRUE]

Fees == {None, Some(TT24M1), Some(TT24M1 + 1)}
Limits == {NoLimit, Limit(0), Limit(2), Limit(3), WideLimit}
Amounts == {4}
Quotes == {None, Some(0), Some(1), Some(20)}
WaitTimeouts == {None, Some(1)}
SwapTxOptions ==
    {[kind |-> "Nonce", v |-> 7], [kind |-> "GasLimitMultiplier", v |-> 20],
     [kind |-> "GasLimit", v |-> 21000]}
SwapOptionLists == UNION {[1..n -> SwapTxOptions] : n \in 0..MaxSwapOptions}
SwapOps ==
    {"swap_uniswap", "swap_uniswap_eth_in", "wrap_eth", "unwrap_eth",
     "get_uniswap_price"}

Panic(where) == [status |-> "Panic", err |-> "panic", at |-> where]

\* bad_fee refusing the largest uint24 too.
bad_fee_at_max(fee) == fee >= TT24M1

bad_fee(fee) == fee > TT24M1
bad_sqrt_price_limit(limit) == limit.wide

options_contains_glm(options) ==
    \E i \in 1..Len(options) : options[i].kind = "GasLimitMultiplier"

\* decode_uniswap_sqrt_price: (sqrt_price / 2^96)^2.
decode_uniswap_sqrt_price(v) == v * v

\* The requests of simulate_transaction and of the eth_call it ends with.
SimulateTransaction(outcome) ==
    IF ~check_sync THEN <<"eth_call">>
    ELSE IF outcome = "SyncingNode" THEN <<"eth_syncing">>
    ELSE <<"eth_syncing", "eth_getBalance", "eth_syncing",
           "eth_getTransactionCount", "eth_syncing", "eth_gasPrice",
           "eth_syncing", "eth_getBlockByNumber", "eth_syncing", "eth_call">>

SwIdle ==
    [op |-> "none", pc |-> "idle", fee_uint24 |-> None,
     sqrt_price_limit |-> NoLimit, deadline |-> None, amount |-> 0,
     amount_out_min |-> None, options |-> <<>>, given |-> <<>>,
     wait_timeout |-> None, nonce |-> 0, approved |-> TRUE, approval_included |-> FALSE,
     checked |-> FALSE, waits |-> 0, amount_out |-> None,
     result |-> NoResult]

SwReturn(w, r) == [w EXCEPT !.pc = "ret", !.result = r]

\* A caller enters one of the operations.
SwapCall ==
    /\ sw.op = "none" /\ st.pc = "idle" /\ wt.pc = "idle"
    /\ \E op \in SwapOps, w \in WaitTimeouts :
        \/ /\ op \in {"wrap_eth", "unwrap_eth"}
           /\ \E a \in Amounts :
                sw' = [SwIdle EXCEPT !.op = op, !.pc = "send", !.amount = a,
                                     !.wait_timeout = w]
        \/ /\ op \in {"swap_uniswap", "swap_uniswap_eth_in", "get_uniswap_price"}
           /\ \E f \in Fees, l \in Limits, a \in Amounts, d \in BOOLEAN,
                 m \in {None, Some(0)}, o \in SwapOptionLists :
                /\ op = "get_uniswap_price" =>
                      /\ w = None /\ o = <<>> /\ m = None /\ d
                /\ sw' = [SwIdle EXCEPT !.op = op, !.pc = "validate",
                            !.fee_uint24 = f, !.sqrt_price_limit = l,
                            !.amount = a,
                            !.deadline = IF d THEN Some(1) ELSE None,
                            !.amount_out_min = m, !.options = o,
                            !.given = o, !.wait_timeout = w]
    /\ UNCHANGED <<calc, nb, check_sync, node, st, reqs, sent, wt>>

\* The fee and price-limit bounds, before any request.
Validate ==
    /\ sw.pc = "validate"
    /\ LET fee == IF sw.fee_uint24.some THEN sw.fee_uint24.v ELSE 3000 IN
        sw' = IF bad_fee(fee) THEN SwReturn(sw, Err("BadInput", "fee"))
              ELSE IF bad_sqrt_price_limit(sw.sqrt_price_limit)
              THEN SwReturn(sw, Err("BadInput", "sqrt_price_limit"))
              ELSE [sw EXCEPT !.fee_uint24 = Some(fee),
                              !.pc = IF sw.op = "get_uniswap_price"
                                     THEN "quote" ELSE "deadline"]
    /\ UNCHANGED <<calc, nb, check_sync, node, st, reqs, sent, wt>>

\* deadline: the caller's, or eth_get_latest_block().await.unwrap().timestamp
\* + 600.
DefaultDeadline ==
    /\ sw.pc = "deadline"
    /\ \/ /\ sw.deadline.some
          /\ sw' = [sw EXCEPT !.pc = "min_out"]
          /\ UNCHANGED reqs
       \/ /\ ~sw.deadline.some
          /\ \E o \in ReadOutcomes :
               /\ reqs' = reqs \o SyncedRead("eth_getBlockByNumber", o)
               /\ sw' = IF o = "Ok"
                        THEN [sw EXCEPT !.deadline = Some(601), !.pc = "min_out"]
                        ELSE SwReturn(sw, Panic("deadline"))
    /\ UNCHANGED <<calc, nb, check_sync, node, st, sent, wt>>

\* get_uniswap_price: the simulated quoteExactInputSingle call.
Quote ==
    /\ sw.pc = "quote"
    /\ \E o \in ReadOutcomes :
         /\ reqs' = reqs \o SimulateTransaction(o)
         /\ sw' = IF o = "Ok" THEN [sw EXCEPT !.pc = "min_out"]
                  ELSE SwReturn(sw, Err(o, "quote"))
    /\ UNCHANGED <<calc, nb, check_sync, node, st, sent, wt>>

\* sensible_spot_price * amount, parsed back into a Uint256: the parse of a
\* fraction fails and the unwrap panics.
SensibleAmountOut(price, amount, zero_for_one) ==
    IF zero_for_one THEN Some(price * amount)
    ELSE IF amount % price = 0 THEN Some(amount \div price)
    ELSE None

\* Where an operation goes once amount_out_min is known.
AfterMinOut(w, min) ==
    [w EXCEPT !.amount_out_min = Some(min),
              !.pc = IF w.op = "get_uniswap_price" THEN "compare"
                     ELSE IF w.op = "swap_uniswap" THEN "approved"
                     ELSE "send"]

\* MinOut taking only an absent limit for "no limit": a limit of 0 goes on
\* to the pool lookup.
MinOutZeroToPool ==
    /\ sw.pc = "min_out"
    /\ \/ /\ sw.amount_out_min.some
          /\ sw' = AfterMinOut(sw, sw.amount_out_min.v)
       \/ /\ ~sw.amount_out_min.some
          /\ ~sw.sqrt_price_limit.some
          /\ sw' = AfterMinOut(sw, 0)
       \/ /\ ~sw.amount_out_min.some
          /\ sw.sqrt_price_limit.some
          /\ sw' = [sw EXCEPT !.pc = "pool"]
    /\ UNCHANGED <<calc, nb, check_sync, node, st, reqs, sent, wt>>

\* amount_out_min: the caller's, or get_sensible_amount_out_from_sqrt_price
\* up to its pool lookup.
MinOut ==
    /\ sw.pc = "min_out"
    /\ \/ /\ sw.amount_out_min.some
          /\ sw' = AfterMinOut(sw, sw.amount_out_min.v)
       \/ /\ ~sw.amount_out_min.some
          /\ ~sw.sqrt_price_limit.some \/ sw.sqrt_price_limit.v = 0
          /\ sw' = AfterMinOut(sw, 0)
       \/ /\ ~sw.amount_out_min.some
          /\ sw.sqrt_price_limit.some /\ sw.sqrt_price_limit.v # 0
          /\ sw' = [sw EXCEPT !.pc = "pool"]
    /\ UNCHANGED <<calc, nb, check_sync, node, st, reqs, sent, wt>>

\* get_uniswap_pool_address, whose simulated call is unwrapped, then
\* get_uniswap_pool_tokens and the price arithmetic.
Pool ==
    /\ sw.pc = "pool"
    /\ \/ \E o \in ReadOutcomes \ {"Ok"} :
            /\ reqs' = reqs \o SimulateTransaction(o)
            /\ sw' = SwReturn(sw, Panic("getPool"))
       \/ /\ reqs' = reqs \o SimulateTransaction("Ok")
          /\ sw' = SwReturn(sw, Err("BadResponse", "No such Uniswap pool"))
       \/ \E o \in ReadOutcomes \ {"Ok"} :
            /\ reqs' = reqs \o SimulateTransaction("Ok") \o SimulateTransaction(o)
            /\ sw' = SwReturn(sw, Err(o, "token0"))
       \/ \E o \in ReadOutcomes \ {"Ok"} :
            /\ reqs' = reqs \o SimulateTransaction("Ok")
                            \o SimulateTransaction("Ok") \o SimulateTransaction(o)
            /\ sw' = SwReturn(sw, Err(o, "token1"))
       \/ \E zero_for_one \in BOOLEAN :
            LET out == SensibleAmountOut(
                           decode_uniswap_sqrt_price(sw.sqrt_price_limit.v),
                           sw.amount, zero_for_one) IN
            /\ reqs' = reqs \o SimulateTransaction("Ok")
                            \o SimulateTransaction("Ok") \o SimulateTransaction("Ok")
            /\ sw' = IF out.some THEN AfterMinOut(sw, out.v)
                     ELSE SwReturn(sw, Panic("parse"))
    /\ UNCHANGED <<calc, nb, check_sync, node, st, sent, wt>>

\* Compare accepting every quote.
CompareNoCheck ==
    /\ sw.pc = "compare"
    /\ sw' = SwReturn([sw EXCEPT !.amount_out = node.quote], Ok)
    /\ UNCHANGED <<calc, nb, check_sync, node, st, reqs, sent, wt>>

\* Compare refusing a quote that only equals amount_out_min.
CompareAtMost ==
    /\ sw.pc = "compare"
    /\ sw' = IF ~node.quote.some
             THEN SwReturn(sw, Err("ContractCallError", "Bad response from swap price"))
             ELSE IF node.quote.v <= sw.amount_out_min.v
             THEN SwReturn(sw, Err("BadResponse", "Liquidity too low"))
             ELSE SwReturn([sw EXCEPT !.amount_out = node.quote], Ok)
    /\ UNCHANGED <<calc, nb, check_sync, node, st, reqs, sent, wt>>

\* get_uniswap_price: the first 32 bytes of the quote, where the answer has
\* them, against amount_out_min; Ok(amount_out) when it is not below.
Compare ==
    /\ sw.pc = "compare"
    /\ sw' = IF ~node.quote.some
             THEN SwReturn(sw, Err("ContractCallError", "Bad response from swap price"))
             ELSE IF node.quote.v < sw.amount_out_min.v
             THEN SwReturn(sw, Err("BadResponse", "Liquidity too low"))
             ELSE SwReturn([sw EXCEPT !.amount_out = node.quote], Ok)
    /\ UNCHANGED <<calc, nb, check_sync, node, st, reqs, sent, wt>>

\* WithDefaultGlm pushing the default whatever the options hold.
WithDefaultGlmAlways(options) ==
    Append(options, [kind |-> "GasLimitMultiplier",
                     v |-> DEFAULT_GAS_LIMIT_MULT])

\* options.push(GasLimitMultiplier(glm)) unless the options hold one.
WithDefaultGlm(options) ==
    IF options_contains_glm(options) THEN options
    ELSE Append(options, [kind |-> "GasLimitMultiplier",
                          v |-> DEFAULT_GAS_LIMIT_MULT])

\* The options of the swap transaction after the approval went out.
AfterApproval(options, nonce, wait_timeout) ==
    IF ~wait_timeout.some
    THEN Append(options, [kind |-> "Nonce", v |-> nonce + 1])
    ELSE options

\* The default multiplier, then check_erc20_approved(token_in, eth_address,
\* router)?.
CheckApproved ==
    /\ sw.pc = "approved"
    /\ LET w == [sw EXCEPT !.options = WithDefaultGlm(sw.options),
                           !.checked = TRUE] IN
       \E o \in ReadOutcomes :
         /\ reqs' = reqs \o SimulateTransaction(o)
         /\ \/ o # "Ok" /\ sw' = SwReturn(w, Err(o, "check_erc20_approved"))
            \/ o = "Ok" /\ sw' = [w EXCEPT !.approved = TRUE, !.pc = "send"]
            \/ o = "Ok" /\ sw' = [w EXCEPT !.approved = FALSE, !.pc = "nonce"]
    /\ UNCHANGED <<calc, nb, check_sync, node, st, sent, wt>>

\* let nonce = eth_get_transaction_count(eth_address)?, then the approval's
\* send_transaction with a clone of the options.
ApproveNonce ==
    /\ sw.pc = "nonce"
    /\ \E o \in ReadOutcomes :
         /\ reqs' = reqs \o SyncedRead("eth_getTransactionCount", o)
         /\ \/ /\ o # "Ok"
               /\ sw' = SwReturn(sw, Err(o, "nonce"))
               /\ UNCHANGED st
            \/ /\ o = "Ok"
               /\ sw' = [sw EXCEPT !.nonce = node.nonce, !.pc = "approve_send"]
               /\ st' = [StStart(sw.options) EXCEPT !.caller = "approve"]
    /\ UNCHANGED <<calc, nb, check_sync, node, sent, wt>>

\* The approval's send_transaction returned: its error ends the swap, else the
\* approval waits when the caller asked for it, and the swap goes on.
ApproveSent ==
    /\ sw.pc = "approve_send" /\ st.pc = "ret"
    /\ \/ /\ st.result.status # "Ok"
          /\ sw' = SwReturn(sw, st.result)
          /\ UNCHANGED wt
       \/ /\ st.result.status = "Ok" /\ sw.wait_timeout.some
          /\ sw' = [sw EXCEPT !.pc = "approve_wait", !.waits = sw.waits + 1]
          /\ wt' = WtStart(None, sw.wait_timeout.v, TRUE)
       \/ /\ st.result.status = "Ok" /\ ~sw.wait_timeout.some
          /\ sw' = [sw EXCEPT !.pc = "send",
                      !.options = AfterApproval(sw.options, sw.nonce, sw.wait_timeout)]
          /\ UNCHANGED wt
    /\ UNCHANGED <<calc, nb, check_sync, node, st, reqs, sent>>

\* The approval's wait returned.
ApproveWaited ==
    /\ sw.pc = "approve_wait" /\ wt.pc = "ret"
    /\ sw' = IF wt.result.status # "Ok" THEN SwReturn(sw, wt.result)
             ELSE [sw EXCEPT !.pc = "send", !.approval_included = wt.tx_block.some,
                      !.options = AfterApproval(sw.options, sw.nonce, sw.wait_timeout)]
    /\ wt' = WtIdle
    /\ UNCHANGED <<calc, nb, check_sync, node, st, reqs, sent>>

\* SwapSend with no value in the transaction of swap_uniswap_eth_in.
SwapSendNoValue ==
    /\ sw.pc = "send"
    /\ st' = [StStart(IF sw.op \in {"wrap_eth", "unwrap_eth"} THEN <<>>
                      ELSE IF sw.op = "swap_uniswap" THEN sw.options
                      ELSE WithDefaultGlm(sw.options))
                 EXCEPT !.caller = sw.op,
                        !.value = IF sw.op = "wrap_eth" THEN sw.amount ELSE 0]
    /\ sw' = [sw EXCEPT !.pc = "sending"]
    /\ UNCHANGED <<calc, nb, check_sync, node, reqs, sent, wt>>

\* The operation's own send_transaction.
SwapSend ==
    /\ sw.pc = "send"
    /\ st' = [StStart(IF sw.op \in {"wrap_eth", "unwrap_eth"} THEN <<>>
                      ELSE IF sw.op = "swap_uniswap" THEN sw.options
                      ELSE WithDefaultGlm(sw.options))
                 EXCEPT !.caller = sw.op,
                        !.value = IF sw.op \in {"swap_uniswap_eth_in", "wrap_eth"}
                                  THEN sw.amount ELSE 0]
    /\ sw' = [sw EXCEPT !.pc = "sending"]
    /\ UNCHANGED <<calc, nb, check_sync, node, reqs, sent, wt>>

\* send_transaction(...).await?, then the wait when the caller asked for it.
SwapSent ==
    /\ sw.pc = "sending" /\ st.pc = "ret"
    /\ \/ /\ st.result.status # "Ok"
          /\ sw' = SwReturn(sw, st.result)
          /\ UNCHANGED wt
       \/ /\ st.result.status = "Ok" /\ sw.wait_timeout.some
          /\ sw' = [sw EXCEPT !.pc = "wait", !.waits = sw.waits + 1]
          /\ wt' = WtStart(None, sw.wait_timeout.v, TRUE)
       \/ /\ st.result.status = "Ok" /\ ~sw.wait_timeout.some
          /\ sw' = SwReturn(sw, Ok)
          /\ UNCHANGED wt
    /\ UNCHANGED <<calc, nb, check_sync, node, st, reqs, sent>>

\* future_timeout(timeout, wait_for_transaction(txid, timeout, None)).await??
SwapWaited ==
    /\ sw.pc = "wait" /\ wt.pc = "ret"
    /\ sw' = SwReturn(sw, wt.result)
    /\ UNCHANGED <<calc, nb, check_sync, node, st, reqs, sent, wt>>

Swapper ==
    \/ Validate \/ DefaultDeadline \/ Quote \/ MinOut \/ Pool \/ Compare
    \/ CheckApproved \/ ApproveNonce \/ ApproveSent \/ ApproveWaited
    \/ SwapSend \/ SwapSent \/ SwapWaited

\* ------------------------------------------------------------ specifications

Init ==
    /\ check_sync \in BOOLEAN
    /\ node \in [balance : Balances, nonce : Nonces, base_fee : BaseFees,
                 quote : {None}, order : {InOrder}]
    /\ st = StIdle
    /\ reqs = <<>>
    /\ sent = <<>>
    /\ wt = WtIdle
    /\ sw = SwIdle
    /\ calc = NoCalc
    /\ nb = NbIdle

\* One call of send_transaction.
Next == SendTransaction \/ Pipeline

Spec == Init /\ [][Next]_vars

\* One call of a read behind the sync guard.
ReadCall ==
    /\ st.pc = "idle" /\ sw.op = "none" /\ calc = NoCalc
    /\ \E a \in SyncAnswers, o \in RequestOutcomes :
         \/ \E f \in DOMAIN GuardedReads :
              LET r == Guarded(GuardedReads[f], a, o) IN
              /\ calc' = [fn |-> f, args |-> <<a, o>>, done |-> TRUE,
                          out |-> r.result]
              /\ reqs' = reqs \o r.requests
              /\ sw' = [sw EXCEPT !.op = f]
         \/ \E ba \in SyncAnswers, bo \in RequestOutcomes :
              LET r == EthGasPrice(a, o, ba, bo) IN
              /\ calc' = [fn |-> "eth_gas_price", args |-> <<a, o, ba, bo>>,
                          done |-> TRUE, out |-> r.result]
              /\ reqs' = reqs \o r.requests
              /\ sw' = [sw EXCEPT !.op = "eth_gas_price"]
    /\ UNCHANGED <<nb, check_sync, node, st, sent, wt>>

\* One call of send_transaction or of a guarded read.
NextSync == SendTransaction \/ Pipeline \/ ReadCall

SpecSync == Init /\ [][NextSync]_vars

\* One call of eth_wait_for_transaction.
NextWait == EthWaitForTransaction \/ Waiter

SpecWait == Init /\ [][NextWait]_vars

\* One call of send_transaction against a node that answers the four initial
\* reads in any order.
InitJoin ==
    /\ check_sync \in BOOLEAN
    /\ node \in [balance : {100000}, nonce : Nonces, base_fee : {Some(1)},
                 quote : {None}, order : Orders]
    /\ st = StIdle
    /\ reqs = <<>>
    /\ sent = <<>>
    /\ wt = WtIdle
    /\ sw = SwIdle
    /\ calc = NoCalc
    /\ nb = NbIdle

SpecJoin == InitJoin /\ [][Next]_vars

\* One call of a swap, a wrap or a quote, against a funded account on a
\* fee-market chain.
InitSwap ==
    /\ check_sync \in BOOLEAN
    /\ node \in [balance : {100000}, nonce : Nonces, base_fee : {Some(1)},
                 quote : Quotes, order : {InOrder}]
    /\ st = StIdle
    /\ reqs = <<>>
    /\ sent = <<>>
    /\ wt = WtIdle
    /\ sw = SwIdle
    /\ calc = NoCalc
    /\ nb = NbIdle

NextSwap == SwapCall \/ Swapper \/ Pipeline \/ Poll \/ Deadline \/ Elapsed

SpecSwap == InitSwap /\ [][NextSwap]_vars

\* The arithmetic of the library on its own.  A base fee is drawn with and
\* without a part above 2^128, a multiplier from below zero to 3.0.
BaseFeeValues == {U256(hi, lo) : hi \in 0..2, lo \in {0, 1, 2, 3, 7, 21}}
Multipliers == {-5, 0, 4, 5, 10, 12, 14, 15, 25, 30}

NextBlock == WaitForNextBlock \/ NextBlockLoop \/ NextBlockPoll

SpecNextBlock == Init /\ [][NextBlock]_vars

\* An application of `f` to `a` that has not been evaluated yet.
Call(f, a) == [fn |-> f, args |-> a, done |-> FALSE, out |-> 0]

FeeMultiplierCalls ==
    {Call("fee_multiplier", <<b, m>>) : b \in BaseFeeValues, m \in Multipliers}

\* simulated_gas_price_and_limit: the balance of the caller, how the gas
\* price retrieval ends, the median price of eth_gasPrice and the base fee of
\* the latest block.
SimBalances == {0, 1, 20999, 21000, 24900000, 24900001, 100000000}
GasPrices == {0, 1, 2, 7}
GasPriceOutcomes == {"Ok", "JsonRpcError", "SyncingNode"}
SimulatedGasCalls ==
    {Call("simulated_gas_price_and_limit", <<b, o, g, f>>) :
        b \in SimBalances, o \in GasPriceOutcomes, g \in GasPrices,
        f \in BaseFees}

\* ------------------------------------------------ BigUint, in 12-bit limbs
\* A BigUint is a sequence of Limbs limbs in 0..LIMB-1, least significant
\* limb first; 18 limbs hold 216 bits, above every value formed below.
LimbBits == 12
LIMB == Exp2(LimbBits)
Limbs == 18

RECURSIVE BigFrom(_, _)
BigFrom(n, acc) ==
    IF Len(acc) = Limbs THEN acc
    ELSE BigFrom(n \div LIMB, Append(acc, n % LIMB))

Big(n) == BigFrom(n, <<>>)

BigZero == Big(0)

RECURSIVE BigZeros(_)
BigZeros(k) == IF k = 0 THEN <<>> ELSE Append(BigZeros(k - 1), 0)

\* a << bits, for a multiple of the limb width.
BigShl(a, bits) ==
    LET k == bits \div LimbBits IN
    BigZeros(k) \o SubSeq(a, 1, Limbs - k)

\* a >> bits, for fewer bits than a limb has.
RECURSIVE BigShrFrom(_, _, _, _)
BigShrFrom(a, bits, i, acc) ==
    IF i > Limbs THEN acc
    ELSE BigShrFrom(a, bits, i + 1,
             Append(acc,
                 (a[i] \div Exp2(bits))
                 + (IF i < Limbs
                    THEN (a[i + 1] % Exp2(bits)) * Exp2(LimbBits - bits)
                    ELSE 0)))

BigShr(a, bits) == BigShrFrom(a, bits, 1, <<>>)

RECURSIVE BigAddFrom(_, _, _, _, _)
BigAddFrom(a, b, i, carry, acc) ==
    IF i > Limbs THEN acc
    ELSE LET t == a[i] + b[i] + carry IN
         BigAddFrom(a, b, i + 1, t \div LIMB, Append(acc, t % LIMB))

BigAdd(a, b) == BigAddFrom(a, b, 1, 0, <<>>)

\* a - b, for a >= b.
RECURSIVE BigSubFrom(_, _, _, _, _)
BigSubFrom(a, b, i, borrow, acc) ==
    IF i > Limbs THEN acc
    ELSE LET t == a[i] - b[i] - borrow IN
         BigSubFrom(a, b, i + 1, IF t < 0 THEN 1 ELSE 0,
                    Append(acc, (t + LIMB) % LIMB))

BigSub(a, b) == BigSubFrom(a, b, 1, 0, <<>>)

RECURSIVE BigGeqFrom(_, _, _)
BigGeqFrom(a, b, i) ==
    IF i = 0 THEN TRUE
    ELSE IF a[i] # b[i] THEN a[i] > b[i]
    ELSE BigGeqFrom(a, b, i - 1)

BigGeq(a, b) == BigGeqFrom(a, b, Limbs)

\* a / d, truncating, for 0 < d < LIMB: long division from the top limb.
RECURSIVE BigDivFrom(_, _, _, _, _)
BigDivFrom(a, d, i, rem, acc) ==
    IF i = 0 THEN acc
    ELSE LET t == rem * LIMB + a[i] IN
         BigDivFrom(a, d, i - 1, t % d, <<t \div d>> \o acc)

BigDiv(a, d) == BigDivFrom(a, d, Limbs, 0, <<>>)

\* a * m, for m below LIMB.
RECURSIVE BigMulSmallFrom(_, _, _, _, _)
BigMulSmallFrom(a, m, i, carry, acc) ==
    IF i > Limbs THEN acc
    ELSE LET t == a[i] * m + carry IN
         BigMulSmallFrom(a, m, i + 1, t \div LIMB, Append(acc, t % LIMB))

BigMulSmall(a, m) == BigMulSmallFrom(a, m, 1, 0, <<>>)

\* The sum of the limb products a[i] * b[j] with i + j = k + 1.
RECURSIVE BigColumn(_, _, _, _)
BigColumn(a, b, k, i) ==
    IF i > k THEN 0 ELSE a[i] * b[k + 1 - i] + BigColumn(a, b, k, i + 1)

RECURSIVE BigMulFrom(_, _, _, _, _)
BigMulFrom(a, b, k, carry, acc) ==
    IF k > Limbs THEN acc
    ELSE LET t == BigColumn(a, b, k, 1) + carry IN
         BigMulFrom(a, b, k + 1, t \div LIMB, Append(acc, t % LIMB))

\* a * b, column by column.
BigMul(a, b) == BigMulFrom(a, b, 1, 0, <<>>)

\* One round of the bit-by-bit square root: `bit` runs down the powers of
\* 4, `res` gathers the root and `n` is what is left of the operand.
BigSqrtStep(s) ==
    IF s.bit = BigZero THEN s
    ELSE LET t == BigAdd(s.res, s.bit) IN
         IF BigGeq(s.n, t)
         THEN [n |-> BigSub(s.n, t), res |-> BigAdd(BigShr(s.res, 1), s.bit),
               bit |-> BigShr(s.bit, 2)]
         ELSE [n |-> s.n, res |-> BigShr(s.res, 1), bit |-> BigShr(s.bit, 2)]

\* k rounds, or as many as it takes `bit` to run out.
RECURSIVE BigSqrtSteps(_, _)
BigSqrtSteps(k, s) ==
    IF k = 0 THEN s
    ELSE IF k = 1 THEN BigSqrtStep(s)
    ELSE LET half == BigSqrtSteps(k \div 2, s) IN
         IF half.bit = BigZero THEN half
         ELSE BigSqrtSteps(k - k \div 2, half)

\* BigUint::sqrt, the truncated square root: one round for each power of 4
\* that the limbs hold.
BigSqrt(n) ==
    BigSqrtSteps((Limbs * LimbBits) \div 2,
                 [n |-> n, res |-> BigZero,
                  bit |-> BigZeros(Limbs - 1) \o <<Exp2(LimbBits - 2)>>]).res

\* ------------------------------------------------------ Uniswap sqrt prices

Q_SHIFT == 192

PoolAmounts == {0, 1, 2, 3, 10, 2000}
SqrtPriceFromAmountsCalls ==
    {Call("uniswap_sqrt_price_from_amounts", <<a1, a0>>) :
        a1 \in PoolAmounts, a0 \in PoolAmounts}

\* uniswap_sqrt_price_from_amounts taking the root of the whole ratio first
\* and scaling it by 2^96 afterwards.
sqrt_price_root_first(amount_1, amount_0) ==
    IF amount_0 = 0 THEN Panic("division by zero")
    ELSE [status |-> "Ok",
          v |-> BigShl(BigSqrt(Big(amount_1 \div amount_0)), Q_SHIFT \div 2)]

\* let numerator = amount_1.0 << 192; let ratio_x192 = numerator /
\* denominator; Uint256(BigUint::sqrt(&ratio_x192)): the division of a
\* BigUint by zero panics.
uniswap_sqrt_price_from_amounts(amount_1, amount_0) ==
    IF amount_0 = 0 THEN Panic("division by zero")
    ELSE [status |-> "Ok",
          v |-> BigSqrt(BigDiv(BigShl(Big(amount_1), Q_SHIFT), amount_0))]

\* An f64 that is a whole number of 1 / den, den a power of two.
Fraction(n, d) == [num |-> n, den |-> d]

\* scale_uniswap_sqrt_price: sqrt prices in units of 2^-96, so that
\* decode_uniswap_sqrt_price gives spot prices in units of 2^-192, and
\* tolerances in 256ths, for which the f64 arithmetic is exact.
SqrtPrices == {1, 16, 100, 600, 1000}
Tolerances == {Fraction(n, 256) : n \in {0, 1, 13, 64, 128, 256, 512}}
ScaleCalls ==
    {Call("scale_uniswap_sqrt_price", <<v, t, z>>) :
        v \in SqrtPrices, t \in Tolerances, z \in BOOLEAN}

\* The truncated square root of x below 2^30, by bisection: lo^2 <= x < hi^2.
RECURSIVE FloorSqrtIn(_, _, _)
FloorSqrtIn(x, lo, hi) ==
    IF hi - lo <= 1 THEN lo
    ELSE LET mid == (lo + hi) \div 2 IN
         IF mid * mid <= x THEN FloorSqrtIn(x, mid, hi)
         ELSE FloorSqrtIn(x, lo, mid)

FloorSqrt(x) == FloorSqrtIn(x, 0, Exp2(15))

\* (spot_price * 2^192).sqrt().floor(), printed and parsed as a Uint256: the
\* root of a negative number is NaN, whose parse fails and whose unwrap
\* panics.
uniswap_sqrt_price_from_price(spot_price) ==
    IF spot_price.num < 0 THEN Panic("parse")
    ELSE [status |-> "Ok", v |-> FloorSqrt(spot_price.num \div spot_price.den)]

\* scale_uniswap_sqrt_price with 1 - scale_percentage in both directions.
scale_direction_ignored(sqrt_price, scale_percentage, zero_for_one) ==
    uniswap_sqrt_price_from_price(
        Fraction(decode_uniswap_sqrt_price(sqrt_price)
                     * (scale_percentage.den - scale_percentage.num),
                 scale_percentage.den))

\* spot_price * (1 - scale_percentage) for token0 -> token1 and
\* spot_price * (1 + scale_percentage) otherwise, encoded again.
scale_uniswap_sqrt_price(sqrt_price, scale_percentage, zero_for_one) ==
    LET spot_price == decode_uniswap_sqrt_price(sqrt_price)
        scale_factor ==
            IF zero_for_one
            THEN Fraction(scale_percentage.den - scale_percentage.num,
                          scale_percentage.den)
            ELSE Fraction(scale_percentage.den + scale_percentage.num,
                          scale_percentage.den)
        scaled_price == Fraction(spot_price * scale_factor.num, scale_factor.den)
    IN uniswap_sqrt_price_from_price(scaled_price)

GAS_LIMIT == 12450000

Min(a, b) == IF a < b THEN a ELSE b

GasPrice(price) == [status |-> "Ok", err |-> "", at |-> "", v |-> price]

\* eth_gas_price: the median of eth_gasPrice, or the base fee of the latest
\* block where that is higher; an error of eth_syncing, of the request or of
\* the block read as it is.
eth_gas_price(outcome, median_gas, base_fee) ==
    IF outcome # "Ok" THEN Err(outcome, "eth_gas_price")
    ELSE IF base_fee.some /\ median_gas < base_fee.v THEN GasPrice(base_fee.v)
    ELSE GasPrice(median_gas)

SimulatedGas(l, p) == [status |-> "Ok", limit |-> l, price |-> p]

\* simulated_gas_price_and_limit with the limit always at the hard cap.
simulated_gas_at_cap(balance, gas_price) ==
    IF gas_price.status # "Ok" THEN gas_price
    ELSE SimulatedGas(GAS_LIMIT, gas_price.v)

\* let gas_price = eth_gas_price().await?;
\* let limit = min(GAS_LIMIT.into(), balance / gas_price): the division of a
\* Uint256 by zero panics.
simulated_gas_price_and_limit(balance, gas_price) ==
    IF gas_price.status # "Ok" THEN gas_price
    ELSE IF gas_price.v = 0 THEN Panic("division by zero")
    ELSE SimulatedGas(Min(GAS_LIMIT, balance \div gas_price.v), gas_price.v)

InitCalc ==
    /\ check_sync = FALSE
    /\ node = [balance |-> 0, nonce |-> 0, base_fee |-> None, quote |-> None,
               order |-> InOrder]
    /\ st = StIdle
    /\ reqs = <<>>
    /\ sent = <<>>
    /\ wt = WtIdle
    /\ sw = SwIdle
    /\ calc \in FeeMultiplierCalls \cup SimulatedGasCalls
                \cup SqrtPriceFromAmountsCalls \cup ScaleCalls
    /\ nb = NbIdle

\* The multiplier arm of the option loop of send_transaction.
FeeMultiplier ==
    /\ calc.fn = "fee_multiplier" /\ ~calc.done
    /\ calc' = [calc EXCEPT !.done = TRUE,
                            !.out = MultipliedFee(calc.args[1], calc.args[2])]
    /\ UNCHANGED <<nb, check_sync, node, st, reqs, sent, wt, sw>>

\* simulated_gas_price_and_limit on the answer of eth_gas_price.
SimulatedGasPriceAndLimit ==
    /\ calc.fn = "simulated_gas_price_and_limit" /\ ~calc.done
    /\ calc' = [calc EXCEPT
                  !.done = TRUE,
                  !.out = simulated_gas_price_and_limit(
                              calc.args[1],
                              eth_gas_price(calc.args[2], calc.args[3],
                                            calc.args[4]))]
    /\ UNCHANGED <<nb, check_sync, node, st, reqs, sent, wt, sw>>

UniswapSqrtPriceFromAmounts ==
    /\ calc.fn = "uniswap_sqrt_price_from_amounts" /\ ~calc.done
    /\ calc' = [calc EXCEPT
                  !.done = TRUE,
                  !.out = uniswap_sqrt_price_from_amounts(calc.args[1],
                                                          calc.args[2])]
    /\ UNCHANGED <<nb, check_sync, node, st, reqs, sent, wt, sw>>

ScaleUniswapSqrtPrice ==
    /\ calc.fn = "scale_uniswap_sqrt_price" /\ ~calc.done
    /\ calc' = [calc EXCEPT
                  !.done = TRUE,
                  !.out = scale_uniswap_sqrt_price(calc.args[1], calc.args[2],
                                                   calc.args[3])]
    /\ UNCHANGED <<nb, check_sync, node, st, reqs, sent, wt, sw>>

NextCalc ==
    \/ FeeMultiplier
    \/ SimulatedGasPriceAndLimit
    \/ UniswapSqrtPriceFromAmounts
    \/ ScaleUniswapSqrtPrice

SpecCalc == InitCalc /\ [][NextCalc]_vars

\* ------------------------------------------------------------------ claims

Count(seq, x) == Cardinality({i \in 1..Len(seq) : seq[i] = x})

\* The call has passed the gas-limit scaling and the affordability step, so
\* st.gas_limit is the final limit.
PastAfford ==
    \/ st.pc \in {"valid1", "sign1", "valid2", "sign2", "send"}
    \/ st.pc = "ret" /\ st.result.status = "Ok"
    \/ st.pc = "ret" /\ st.result.at \in {"afford", "valid1", "valid2", "send"}

\* C1: send_transaction requests eth_sendRawTransaction at most once, as its
\* last request and after both is_valid checks passed; a call that returned an
\* error before that step has requested only reads and has broadcast nothing.
C1_BroadcastOnceAndLast ==
    /\ Count(reqs, "eth_sendRawTransaction") <= 1
    /\ Len(sent) = Count(reqs, "eth_sendRawTransaction")
    /\ Count(reqs, "eth_sendRawTransaction") = 1 =>
          /\ reqs[Len(reqs)] = "eth_sendRawTransaction"
          /\ st.pc = "ret"
          /\ sent[1].valid_checks = 2
    /\ (st.pc = "ret" /\ st.result.status = "Err" /\ st.result.at # "send") =>
          /\ sent = <<>>
          /\ \A i \in 1..Len(reqs) : reqs[i] \in ReadMethods

\* A call that passed both checks and broadcast its transaction.
C1_Witness ==
    /\ st.pc = "ret" /\ st.result.status = "Ok"
    /\ Len(sent) = 1 /\ sent[1].valid_checks = 2
    /\ Len(reqs) > 1

\* A transaction with room for the intrinsic gas and a max fee that covers its
\* priority fee: nothing in it for a well-formedness check to refuse.
WellFormed(t) ==
    /\ t.gas_limit >= ETHEREUM_INTRINSIC_GAS
    /\ t.max_fee_per_gas >= t.max_priority_fee_per_gas

\* C3 as stated: no (well-formed) transaction goes out whose sender's balance is
\* below base_fee * gas_limit, whatever the options.
C3_AsStated ==
    \A i \in 1..Len(sent) :
        WellFormed(sent[i]) =>
            ~(sent[i].balance < sent[i].base_fee * sent[i].gas_limit)

\* C3 amended: when the balance is below base_fee * gas_limit and also below
\* max_fee * gas_limit (max_fee as the options left it), the call fails with
\* InsufficientGas at the affordability step and broadcasts nothing.
C3_InsufficientGas ==
    (/\ PastAfford
     /\ st.our_balance < st.base_fee_per_gas.v * st.gas_limit
     /\ st.our_balance < st.max_fee_options * st.gas_limit)
    => /\ st.pc = "ret"
       /\ st.result = Err("InsufficientGas", "afford")
       /\ sent = <<>>

\* The default fee 2 * base_fee is unaffordable and so is the base fee.
C3_Witness ==
    /\ st.pc = "ret" /\ st.result = Err("InsufficientGas", "afford")
    /\ st.our_balance >= ETHEREUM_INTRINSIC_GAS
    /\ st.our_balance < st.base_fee_per_gas.v * st.gas_limit
    /\ st.gas_limit > 0

\* C4: when base_fee * gas_limit <= balance < max_fee * gas_limit, the call
\* does not fail on affordability and the transaction that goes out carries
\* max_fee_per_gas = balance \div gas_limit, which is at least the base fee.
C4_Downscale ==
    /\ (/\ PastAfford
        /\ st.base_fee_per_gas.v * st.gas_limit <= st.our_balance
        /\ st.our_balance < st.max_fee_options * st.gas_limit)
       => /\ st.result.err # "InsufficientGas"
          /\ st.max_fee_per_gas = st.our_balance \div st.gas_limit
          /\ st.max_fee_per_gas >= st.base_fee_per_gas.v
    /\ \A i \in 1..Len(sent) :
         (/\ sent[i].base_fee * sent[i].gas_limit <= sent[i].balance
          /\ sent[i].balance < sent[i].max_fee_options * sent[i].gas_limit)
         => /\ sent[i].max_fee_per_gas = sent[i].balance \div sent[i].gas_limit
            /\ sent[i].max_fee_per_gas >= sent[i].base_fee

\* A downscaled transaction went out, above the base fee.
C4_Witness ==
    /\ st.pc = "ret" /\ st.result.status = "Ok" /\ Len(sent) = 1
    /\ sent[1].base_fee * sent[1].gas_limit <= sent[1].balance
    /\ sent[1].balance < sent[1].max_fee_options * sent[1].gas_limit
    /\ sent[1].max_fee_per_gas > sent[1].base_fee

\* C5: every transaction that goes out costs at most the balance read at the
\* start: max_fee_per_gas * gas_limit <= balance.
C5_WithinBalance ==
    \A i \in 1..Len(sent) :
        sent[i].max_fee_per_gas * sent[i].gas_limit <= sent[i].balance

\* A transaction went out whose fee as the options left it was unaffordable.
C5_Witness ==
    /\ Len(sent) = 1
    /\ sent[1].max_fee_options * sent[1].gas_limit > sent[1].balance
    /\ sent[1].gas_limit >= ETHEREUM_INTRINSIC_GAS

\* C6 as stated: every (well-formed) transaction that goes out has
\* max_fee_per_gas at least the base fee, whatever the options.
C6_AsStated ==
    \A i \in 1..Len(sent) :
        WellFormed(sent[i]) => sent[i].max_fee_per_gas >= sent[i].base_fee

\* C6 amended: the max_fee_per_gas that goes out is at least the base fee
\* unless the options left a fee below the base fee, and then it is at least
\* that fee or the affordable balance \div gas_limit.
C6_AtLeastBaseFee ==
    \A i \in 1..Len(sent) :
        /\ sent[i].max_fee_options >= sent[i].base_fee
              => sent[i].max_fee_per_gas >= sent[i].base_fee
        /\ sent[i].max_fee_options < sent[i].base_fee
              => sent[i].max_fee_per_gas <= sent[i].max_fee_options

\* A transaction went out at the default fee of twice the base fee.
C6_Witness ==
    /\ Len(sent) = 1
    /\ sent[1].max_fee_per_gas = 2 * sent[1].base_fee
    /\ sent[1].max_fee_options = 2 * sent[1].base_fee
    /\ sent[1].gas_limit > 0

\* C10: with blocks_to_wait = Some(N), eth_wait_for_transaction returns Ok only
\* at a poll where the transaction has an inclusion block b and the current
\* block c has c >= N and c - N >= b; c - N is never evaluated when c < N.
C10_DepthBeforeOk ==
    /\ (wt.pc = "ret" /\ wt.result.status = "Ok" /\ wt.blocks_to_wait.some) =>
          /\ wt.tx_block.some
          /\ wt.current_block.some
          /\ wt.current_block.v >= wt.blocks_to_wait.v
          /\ wt.current_block.v - wt.blocks_to_wait.v >= wt.tx_block.v
    /\ wt.subtracted =>
          /\ wt.current_block.some
          /\ wt.current_block.v >= wt.blocks_to_wait.v

\* A wait for N > 0 blocks returned Ok on its second poll or later.
C10_Witness ==
    /\ wt.pc = "ret" /\ wt.result.status = "Ok"
    /\ wt.blocks_to_wait.some /\ wt.blocks_to_wait.v > 0
    /\ wt.polls > 1
    /\ wt.tx_block.v > 0

\* The transactions the call has handed to the node on behalf of `caller`.
SentBy(caller) == {i \in 1..Len(sent) : sent[i].caller = caller}

\* The call ended in an error.
Failed == sw.pc = "ret" /\ sw.result.status = "Err"

\* C2 as stated: a swap, wrap or unwrap that returned an error, other than the
\* node's refusal of the raw transaction, has handed no transaction to the
\* node.
C2_AsStated == (Failed /\ sw.result.at # "send") => sent = <<>>

\* C2: an error raised before the first eth_sendRawTransaction request of a
\* call leaves nothing broadcast. send_transaction returning an error other
\* than the node's answer to the raw transaction has not broadcast; a swap,
\* wrap or unwrap that returned an error with a transaction out got the error
\* from the node's answer to it, from the wait that followed it, or, for
\* swap_uniswap, from a step that followed the approval.
C2_ErrBeforeBroadcast ==
    /\ (st.pc = "ret" /\ st.result.status = "Err" /\ st.result.at # "send") =>
          SentBy(st.caller) = {}
    /\ (Failed /\ sent # <<>>) =>
          \/ sw.result.at \in {"send", "lookup", "deadline", "future_timeout"}
          \/ /\ sw.op = "swap_uniswap"
             /\ Len(sent) = 1
             /\ sent[1].caller = "approve"

\* A wrap or swap whose send_transaction failed on a read: it returned the
\* error with nothing broadcast.
C2_Witness ==
    /\ Failed /\ sw.op \in {"wrap_eth", "swap_uniswap_eth_in"}
    /\ st.pc = "ret" /\ st.result.at = "estimate"
    /\ sent = <<>> /\ reqs # <<>>

\* swap_uniswap without a wait found the router not approved and returned Ok.
SwapQueued ==
    /\ sw.op = "swap_uniswap" /\ sw.pc = "ret" /\ sw.result.status = "Ok"
    /\ ~sw.approved /\ ~sw.wait_timeout.some

\* C7 as stated: swap_uniswap with wait_timeout = None and the router not
\* approved broadcasts two transactions, the approval and then the swap, and
\* the swap's nonce is the approval's nonce + 1, whatever options the caller
\* gave.
C7_AsStated ==
    SwapQueued =>
        /\ Len(sent) = 2
        /\ sent[1].caller = "approve" /\ sent[2].caller = "swap_uniswap"
        /\ sent[2].nonce = sent[1].nonce + 1

\* C8: swap_uniswap with wait_timeout = Some(t) and the router not approved
\* submits at most one approval, and broadcasts the swap only after the
\* approval's wait saw the approval in a block; an approval not seen in a
\* block within t leaves the swap unsent.
C8_ApprovalBeforeSwap ==
    (sw.op = "swap_uniswap" /\ sw.wait_timeout.some /\ ~sw.approved) =>
        /\ Cardinality(SentBy("approve")) <= 1
        /\ sw.pc \in {"send", "sending", "wait"} =>
              sw.approval_included /\ Cardinality(SentBy("approve")) = 1
        /\ SentBy("swap_uniswap") # {} =>
              /\ sw.approval_included
              /\ Len(sent) = 2 /\ sent[1].caller = "approve"
        /\ (Failed /\ ~sw.approval_included) => SentBy("swap_uniswap") = {}

\* The swap went out after the approval was seen in a block.
C8_Witness ==
    /\ sw.op = "swap_uniswap" /\ sw.wait_timeout.some /\ ~sw.approved
    /\ sw.approval_included
    /\ Len(sent) = 2 /\ sent[2].caller = "swap_uniswap"

\* The approval's wait ran out, and the swap returned the error.
C8_TimedOut ==
    /\ sw.op = "swap_uniswap" /\ sw.wait_timeout.some /\ ~sw.approved
    /\ Failed /\ sw.result.at \in {"deadline", "future_timeout"}
    /\ Len(sent) = 1

\* The price limit is in force, amount_out_min was derived from it, and the
\* quoter's amount_out is below it.
Tight ==
    /\ sw.sqrt_price_limit.some /\ sw.sqrt_price_limit.v # 0
    /\ sw.pc \notin {"validate", "deadline", "quote", "min_out", "pool"}
    /\ sw.amount_out_min.some
    /\ node.quote.some /\ node.quote.v < sw.amount_out_min.v

\* C9 as stated: a swap_uniswap under a tight price limit broadcasts neither
\* an approval nor a swap, and does not return Ok.
C9_AsStated ==
    (sw.op = "swap_uniswap" /\ Tight) =>
        /\ sent = <<>>
        /\ sw.pc = "ret" => sw.result.status # "Ok"

\* C9: get_uniswap_price under a tight price limit fails with
\* BadResponse("Liquidity too low"), and no quote broadcasts anything;
\* swap_uniswap requests no quote and never fails with that error.
C9_QuoteTooLow ==
    /\ (sw.op = "get_uniswap_price" /\ Tight /\ sw.pc = "ret") =>
          sw.result = Err("BadResponse", "Liquidity too low")
    /\ sw.op = "get_uniswap_price" =>
          /\ sent = <<>>
          /\ \A i \in 1..Len(reqs) : reqs[i] \in ReadMethods
    /\ sw.op \in {"swap_uniswap", "swap_uniswap_eth_in"} =>
          sw.result # Err("BadResponse", "Liquidity too low")

\* A quote under a tight price limit was refused.
C9_Witness ==
    /\ sw.op = "get_uniswap_price" /\ Tight /\ sw.pc = "ret"
    /\ sw.result = Err("BadResponse", "Liquidity too low")
    /\ reqs # <<>>

\* The wait returned Ok.
Confirmed == wt.pc = "ret" /\ wt.result = Ok

\* The latest poll read the transaction's block b and the current block c
\* under blocks_to_wait = Some(N).
DepthRead ==
    /\ wt.blocks_to_wait.some /\ wt.tx_block.some /\ wt.current_block.some
    /\ wt.last \in {"deep", "shallow"}

\* C11 as stated: with blocks_to_wait = Some(N), a poll that reads the
\* transaction's block b and a current block c with c >= N and c - N >= b
\* returns Ok.
C11_AsStated ==
    (/\ DepthRead
     /\ wt.current_block.v >= wt.blocks_to_wait.v
     /\ wt.current_block.v - wt.blocks_to_wait.v >= wt.tx_block.v)
       => Confirmed

\* C11: with blocks_to_wait = Some(N), the first poll that reads the
\* transaction's block b and a current block c with c > N and c - N >= b
\* returns Ok; a poll that reads c = N goes on to the deadline check.
C11_DepthEndsWait ==
    /\ (/\ DepthRead
        /\ wt.current_block.v > wt.blocks_to_wait.v
        /\ wt.current_block.v - wt.blocks_to_wait.v >= wt.tx_block.v)
          => Confirmed /\ wt.last = "deep"
    /\ (DepthRead /\ wt.current_block.v = wt.blocks_to_wait.v) => ~Confirmed

\* The wait ended at its second poll or later, on a block deep enough.
C11_Witness ==
    /\ Confirmed /\ DepthRead /\ wt.polls >= 2
    /\ wt.current_block.v - wt.blocks_to_wait.v >= wt.tx_block.v

\* C12: with blocks_to_wait = None the wait returns Ok at the first lookup
\* that carries a block number, and eth_blockNumber is never requested; a
\* lookup that finds nothing, or a transaction without a block number, leads
\* to the deadline check and not to a return.
C12_FirstInclusion ==
    (~wt.blocks_to_wait.some /\ wt.pc # "idle" /\ ~wt.outer) =>
        /\ Count(reqs, "eth_blockNumber") = 0
        /\ Confirmed => wt.tx_block.some /\ wt.last = "included"
        /\ wt.last = "included" => Confirmed
        /\ wt.last \in {"not_found", "pending"} =>
              \/ wt.pc \in {"deadline", "poll"}
              \/ /\ wt.pc = "ret" /\ wt.elapsed > wt.timeout
                 /\ wt.result = Err("TransactionTimeout", "deadline")

\* The third lookup carried a block number after two that did not end the
\* wait.
C12_Witness ==
    /\ ~wt.blocks_to_wait.some /\ Confirmed
    /\ wt.polls = 3 /\ wt.tx_block.some

C14_ErrorEndsWait ==
    /\ [](/\ wt.last = "error" =>
                /\ wt.pc = "ret" /\ wt.result.status = "Err"
                /\ wt.result.at \in {"lookup", "block_number"}
          /\ (wt.pc \in {"deadline", "poll"} /\ wt.polls > 0) =>
                wt.last \in {"not_found", "pending", "shallow"})
    /\ [][wt.pc = "ret" => (wt' = wt /\ reqs' = reqs)]_vars

\* eth_block_number failed at the second poll and the wait returned its error.
C14_Witness ==
    /\ wt.pc = "ret" /\ wt.result.at = "block_number"
    /\ wt.result.status = "Err" /\ wt.polls = 2

\* C15 as stated: no operation panics, whatever the node answers: a swap
\* without a deadline whose latest-block read fails, and a pool lookup whose
\* simulated getPool call fails, return an error value.
C15_AsStated == sw.result.status # "Panic"

\* send_transaction returned an error of its initial reads.
JoinFailed == st.pc = "ret" /\ st.result.at = "join4"

ChainChecked == st.pc \notin {"idle", "join4", "london"} /\ ~JoinFailed

\* The call requested no gas estimate and broadcast nothing.
NothingEstimated ==
    /\ st.estimates = 0 /\ Count(reqs, "eth_estimateGas") = 0
    /\ sent = <<>> /\ Count(reqs, "eth_sendRawTransaction") = 0

\* C17 as stated: whenever the initial reads succeeded and the balance is
\* below 21000, send_transaction fails with InsufficientGas.
C17_AsStated ==
    (ChainChecked /\ st.our_balance < ETHEREUM_INTRINSIC_GAS) =>
        st.pc = "ret" /\ st.result.err = "InsufficientGas"

\* C17: whenever the initial reads succeeded, the latest block has a base
\* fee and the balance is below 21000 (zero included), send_transaction fails
\* with InsufficientGas carrying the balance and 21000 as base gas and gas
\* required, before any gas estimate and with nothing broadcast.
C17_IntrinsicGas ==
    (/\ ChainChecked /\ st.base_fee_per_gas.some
     /\ st.our_balance < ETHEREUM_INTRINSIC_GAS) =>
        /\ st.pc = "ret" /\ st.result = Err("InsufficientGas", "intrinsic")
        /\ st.info = [balance |-> node.balance,
                      base_gas |-> ETHEREUM_INTRINSIC_GAS,
                      gas_required |-> ETHEREUM_INTRINSIC_GAS]
        /\ NothingEstimated

\* A call with a balance one below the intrinsic gas was refused.
C17_Witness ==
    /\ st.pc = "ret" /\ st.result = Err("InsufficientGas", "intrinsic")
    /\ st.info.balance = ETHEREUM_INTRINSIC_GAS - 1
    /\ st.options # <<>>

\* C18: when the initial reads succeeded and the latest block has no base
\* fee, send_transaction fails with PreLondon whatever its options and its
\* balance, without a gas estimate and without a broadcast; when the block
\* has a base fee the call never fails with PreLondon.
C18_PreLondon ==
    /\ (ChainChecked /\ ~st.base_fee_per_gas.some) =>
          /\ st.pc = "ret" /\ st.result = Err("PreLondon", "london")
          /\ NothingEstimated
    /\ st.result.err = "PreLondon" =>
          ~st.base_fee_per_gas.some /\ ~node.base_fee.some

\* A call with two options and no balance failed with PreLondon.
C18_Witness ==
    /\ st.pc = "ret" /\ st.result = Err("PreLondon", "london")
    /\ Len(st.options) = 2 /\ st.our_balance = 0

\* The kind of an option as SendOption names it: GasPrice and GasMaxFee are
\* one kind, the two fee multipliers another.
Kind(o) ==
    CASE o.kind \in {"GasMaxFee", "GasPrice"} -> "GasMaxFee"
      [] o.kind \in {"GasPriceMultiplier", "GasMaxFeeMultiplier"} ->
            "GasMaxFeeMultiplier"
      [] OTHER -> o.kind

\* The field of the transaction an option writes: the explicit fees and the
\* fee multipliers write the same one.
Writes(o) ==
    IF Kind(o) \in {"GasMaxFee", "GasMaxFeeMultiplier"} THEN "max_fee_per_gas"
    ELSE o.kind

SameSlot(a, b, by_field) ==
    IF by_field THEN Writes(a) = Writes(b) ELSE Kind(a) = Kind(b)

\* The options that no later option of the same kind (or, by_field, of the
\* same field) follows, in their order.
RECURSIVE LastOnly(_, _)
LastOnly(opts, by_field) ==
    IF opts = <<>> THEN <<>>
    ELSE IF \E j \in 2..Len(opts) : SameSlot(opts[1], opts[j], by_field)
    THEN LastOnly(Tail(opts), by_field)
    ELSE <<Head(opts)>> \o LastOnly(Tail(opts), by_field)

Reverse(seq) == [i \in 1..Len(seq) |-> seq[Len(seq) + 1 - i]]

\* The arms of the option loop applied one after the other.
RECURSIVE Fold(_, _)
Fold(s, opts) ==
    IF opts = <<>> THEN s ELSE Fold(ApplyOption(s, Head(opts)), Tail(opts))

\* The locals of the call as they enter the option loop.
Defaults(s) ==
    [s EXCEPT !.nonce = node.nonce,
              !.max_fee_per_gas = 2 * s.base_fee_per_gas.v,
              !.max_priority_fee_per_gas = 1, !.gas_limit_multiplier = 10,
              !.gas_limit_opt = None, !.access_list = 0]

\* What the option loop leaves for the transaction.
Built(s) ==
    <<s.nonce, s.max_fee_per_gas, s.max_priority_fee_per_gas, s.gas_limit_opt,
      s.gas_limit_multiplier, s.access_list>>

HasNetworkId(opts) == \E i \in 1..Len(opts) : opts[i].kind = "NetworkId"

\* C19 as stated: what the option loop leaves is what the last option of each
\* kind leaves, applied in any order, here the reverse of the caller's.
C19_AsStated ==
    st.pc = "estimate" =>
        Built(st) = Built(Fold(Defaults(st),
                               Reverse(LastOnly(st.options, FALSE))))

\* C19: what the option loop leaves is what the last option written to each
\* field leaves, applied in any order, where GasPrice, GasMaxFee and the two
\* fee multipliers all write max_fee_per_gas, so that among them the last one
\* in the list wins; a list with a NetworkId option is refused.
C19_LastPerField ==
    /\ st.pc = "estimate" =>
          /\ Built(st) = Built(Fold(Defaults(st),
                                    Reverse(LastOnly(st.options, TRUE))))
          /\ Built(st) = Built(Fold(Defaults(st), LastOnly(st.options, TRUE)))
          /\ ~HasNetworkId(st.options)
    /\ (ChainChecked /\ st.base_fee_per_gas.some /\ st.pc # "options"
        /\ st.our_balance >= ETHEREUM_INTRINSIC_GAS
        /\ HasNetworkId(st.options)) =>
          st.pc = "ret" /\ st.result = Err("BadInput", "options")

\* Two multipliers for the gas limit were given and the second one was kept.
C19_Witness ==
    /\ st.pc = "estimate" /\ Len(st.options) = 2
    /\ st.options[1] = [kind |-> "GasLimitMultiplier", v |-> 20]
    /\ st.options[2] = [kind |-> "GasLimitMultiplier", v |-> 0]
    /\ st.gas_limit_multiplier = 0

\* The index of the last option that writes max_fee_per_gas, 0 without one.
LastFee(opts) ==
    LET is == {i \in 1..Len(opts) : Writes(opts[i]) = "max_fee_per_gas"}
    IN IF is = {} THEN 0 ELSE CHOOSE i \in is : \A j \in is : j <= i

\* The index of the last option of kind k, 0 without one.
LastOfKind(opts, k) ==
    LET is == {i \in 1..Len(opts) : Kind(opts[i]) = k}
    IN IF is = {} THEN 0 ELSE CHOOSE i \in is : \A j \in is : j <= i

\* C20 as stated: with a fee multiplier m among the options, the max fee the
\* loop leaves is g * m when an explicit GasPrice or GasMaxFee g is among them
\* too, and the default max fee * m when none is.
C20_AsStated ==
    LET m == LastOfKind(st.options, "GasMaxFeeMultiplier")
        g == LastOfKind(st.options, "GasMaxFee") IN
    (st.pc = "estimate" /\ m > 0) =>
        st.max_fee_per_gas =
            IF g > 0 THEN MulF32(st.options[g].v, st.options[m].v)
            ELSE MulF32(2 * st.base_fee_per_gas.v, st.options[m].v)

\* C20: a fee multiplier m sets the max fee to the base fee * m, truncated,
\* whatever fee came before it; an explicit GasPrice or GasMaxFee g after the
\* multiplier sets it to g; without either it is twice the base fee.
C20_MultiplierOfBaseFee ==
    LET i == LastFee(st.options) IN
    st.pc = "estimate" =>
        st.max_fee_per_gas =
            IF i = 0 THEN 2 * st.base_fee_per_gas.v
            ELSE IF Kind(st.options[i]) = "GasMaxFee" THEN st.options[i].v
            ELSE MulF32(st.base_fee_per_gas.v, st.options[i].v)

\* An explicit fee of 5 was followed by a multiplier of 3.0, and the max fee
\* is three times the base fee of 2.
C20_Witness ==
    /\ st.pc = "estimate" /\ Len(st.options) = 2
    /\ st.options[1] = [kind |-> "GasPrice", v |-> 5]
    /\ st.options[2] = [kind |-> "GasMaxFeeMultiplier", v |-> 30]
    /\ st.base_fee_per_gas.v = 2 /\ st.max_fee_per_gas = 6

\* A multiplier rounded to an integer, half away from zero, none below zero.
Rounded(m) == IF m < 0 THEN 0 ELSE (m + 5) \div 10

\* C21 as stated: the multiplier arm gives round(base_fee * m) for a base fee
\* below 2^128 and base_fee * round(m) for one above, for m >= 0.
C21_AsStated ==
    LET b == calc.args[1]
        m == calc.args[2] IN
    (calc.fn = "fee_multiplier" /\ calc.done /\ m >= 0) =>
        calc.out = IF b.hi = 0 THEN U256(0, (b.lo * m + 5) \div 10)
                   ELSE U256(b.hi * Rounded(m), b.lo * Rounded(m))

\* C21: the multiplier arm gives base_fee * m truncated toward zero for a base
\* fee below 2^128 (the floor of the product while it stays below 2^21, where
\* an f32 holds it to better than a tenth; 0 for m below zero), and
\* base_fee * round(m) for a base fee of 2^128 or more.
C21_Truncated ==
    LET b == calc.args[1]
        m == calc.args[2] IN
    (calc.fn = "fee_multiplier" /\ calc.done) =>
        /\ (b.hi = 0 /\ m < 0) => calc.out = U256(0, 0)
        /\ (b.hi = 0 /\ m >= 0 /\ b.lo * m < 10 * Exp2(21)) =>
              calc.out = U256(0, (b.lo * m) \div 10)
        /\ b.hi > 0 =>
              calc.out = U256(b.hi * Rounded(m), b.lo * Rounded(m))

\* A base fee of 1 under a multiplier of 1.5 became 1.
C21_Witness ==
    /\ calc.fn = "fee_multiplier" /\ calc.done
    /\ calc.args = <<U256(0, 1), 15>> /\ calc.out = U256(0, 1)

\* C22: a transaction that goes out without a fee option (GasPrice, GasMaxFee,
\* a fee multiplier) from a balance that covers 2 * base_fee * gas_limit has
\* max_fee_per_gas = 2 * base_fee; without a GasPriorityFee option its
\* max_priority_fee_per_gas is 1; a GasPriorityFee option, and a GasMaxFee or
\* GasPrice option that is the last fee option and that the balance covers,
\* stand in the transaction in place of the default.
C22_DefaultFees ==
    LET f == LastFee(st.options)
        p == LastOfKind(st.options, "GasPriorityFee") IN
    \A i \in 1..Len(sent) :
        /\ (f = 0 /\ 2 * sent[i].base_fee * sent[i].gas_limit <= sent[i].balance)
              => sent[i].max_fee_per_gas = 2 * sent[i].base_fee
        /\ p = 0 => sent[i].max_priority_fee_per_gas = 1
        /\ p > 0 => sent[i].max_priority_fee_per_gas = st.options[p].v
        /\ (/\ f > 0 /\ Kind(st.options[f]) = "GasMaxFee"
            /\ st.options[f].v * sent[i].gas_limit <= sent[i].balance)
              => sent[i].max_fee_per_gas = st.options[f].v

\* A call without options sent a transaction at twice the base fee of 2 and a
\* priority fee of 1.
C22_Witness ==
    /\ st.pc = "ret" /\ st.result.status = "Ok" /\ st.options = <<>>
    /\ Len(sent) = 1 /\ sent[1].base_fee = 2
    /\ sent[1].max_fee_per_gas = 4 /\ sent[1].max_priority_fee_per_gas = 1

PastEstimate ==
    \/ st.pc = "scale"
    \/ PastAfford
    \/ st.pc = "ret" /\ st.result.at = "estimate"

\* C24: eth_estimateGas is requested at most once and never by a call with a
\* GasLimit option, whose transaction carries the option's value scaled; a
\* call without one that has left the estimation behind has requested it
\* exactly once; the request is made on the draft as the whole option list
\* left it; a failed estimate ends the call with that error and nothing is
\* broadcast.
C24_EstimateOnce ==
    /\ [](/\ Count(reqs, "eth_estimateGas") <= 1
          /\ Count(reqs, "eth_estimateGas") = st.estimates
          /\ LastOfKind(st.options, "GasLimit") > 0 =>
                /\ Count(reqs, "eth_estimateGas") = 0
                /\ PastEstimate => st.gas_limit_opt.some
                /\ st.pc = "scale" => st.gas_limit = st.gas_limit_opt.v
          /\ (PastEstimate /\ LastOfKind(st.options, "GasLimit") = 0) =>
                Count(reqs, "eth_estimateGas") = 1
          /\ (st.pc = "ret" /\ st.result.at = "estimate") =>
                /\ st.result = Err("JsonRpcError", "estimate")
                /\ reqs[Len(reqs)] = "eth_estimateGas"
                /\ sent = <<>>)
    /\ [][Count(reqs', "eth_estimateGas") > Count(reqs, "eth_estimateGas") =>
            /\ st.pc = "estimate"
            /\ Built(st) = Built(Fold(Defaults(st), LastOnly(st.options, TRUE)))
            /\ Built(st') = Built(st)]_vars

\* A call with options but no GasLimit estimated once and went out.
C24_Witness ==
    /\ st.pc = "ret" /\ st.result.status = "Ok" /\ Len(sent) = 1
    /\ st.options # <<>> /\ LastOfKind(st.options, "GasLimit") = 0
    /\ Count(reqs, "eth_estimateGas") = 1

\* C25 as stated: a transaction that goes out of a call without a
\* GasLimitMultiplier option carries the value of the GasLimit option, or
\* without one the estimate of the node, unchanged.
C25_AsStated ==
    \A i \in 1..Len(sent) :
        ~options_contains_glm(st.options) =>
            IF st.gas_limit_opt.some
            THEN sent[i].gas_limit = st.gas_limit_opt.v
            ELSE sent[i].gas_limit \in Estimates

\* C26 as stated: a transaction that goes out has been signed exactly once,
\* and the second is_valid check was the last thing done to it.
C26_AsStated ==
    \A i \in 1..Len(sent) :
        sent[i].signs = 1 /\ sent[i].valid_checks = 2

Swaps == {"swap_uniswap", "swap_uniswap_eth_in"}

\* The GasLimitMultiplier options of a list, in their order.
Glms(opts) == SelectSeq(opts, LAMBDA o : o.kind = "GasLimitMultiplier")

\* C27: the options a swap hands to send_transaction hold the caller's
\* GasLimitMultiplier options and no other when the caller gave one, and
\* the single GasLimitMultiplier(1.2) when the caller gave none; the gas limit
\* of the swap transaction is the explicit or estimated limit times the
\* caller's multiplier, or times 1.2 without one.
C27_DefaultGlm ==
    LET g == LastOfKind(sw.given, "GasLimitMultiplier")
        l == LastOfKind(sw.given, "GasLimit")
        m == IF g > 0 THEN sw.given[g].v ELSE 12
        raw == IF l > 0 THEN {sw.given[l].v} ELSE Estimates IN
    /\ (/\ st.caller \in Swaps /\ st.pc # "idle"
        /\ ~(st.pc = "ret" /\ st.result.at = "join4")) =>
          Glms(st.options) =
              IF g > 0 THEN Glms(sw.given)
              ELSE <<[kind |-> "GasLimitMultiplier", v |-> 12]>>
    /\ \A i \in 1..Len(sent) :
          sent[i].caller \in Swaps =>
              sent[i].gas_limit \in {(x * m) \div 10 : x \in raw}

\* A swap whose caller asked for a multiplier of 2.0 went out with twice the
\* estimate, and one whose caller gave no option with 1.2 times the estimate.
C27_Witness ==
    /\ Len(sent) >= 1 /\ sent[Len(sent)].caller \in Swaps
    /\ \/ /\ sw.given = <<[kind |-> "GasLimitMultiplier", v |-> 20]>>
          /\ sent[Len(sent)].gas_limit = 42000
       \/ /\ sw.given = <<>>
          /\ sent[Len(sent)].gas_limit = 25200
    /\ sw.pc = "ret" /\ sw.result.status = "Ok"

\* The swap has handed its transaction to send_transaction.
Submitted == sw.op \in Swaps /\ sw.pc \in {"sending", "wait"}

\* C28 as stated: both swaps look up the router's allowance before they
\* submit.
C28_AsStated == Submitted => sw.checked

\* C28: swap_uniswap_eth_in goes through the steps of swap_uniswap (fee and
\* price-limit bounds, default deadline, default amount_out_min, default
\* multiplier, submission, wait when asked for) except the router approval:
\* it never looks up the allowance, sends no approval and adds no Nonce option;
\* its transaction carries the swapped amount as value, that of swap_uniswap 0.
C28_EthInSkipsApproval ==
    /\ Submitted =>
          /\ sw.fee_uint24.some /\ ~bad_fee(sw.fee_uint24.v)
          /\ ~bad_sqrt_price_limit(sw.sqrt_price_limit)
          /\ sw.deadline.some /\ sw.amount_out_min.some
          /\ st.caller = sw.op
          /\ ~(st.pc = "ret" /\ st.result.at = "join4") =>
                Glms(st.options) # <<>>
    /\ (sw.op \in Swaps /\ sw.pc = "ret" /\ sw.result.status = "Ok") =>
          /\ Len(sent) >= 1 /\ sent[Len(sent)].caller = sw.op
          /\ sw.wait_timeout.some =>
                sw.waits >= 1 /\ Count(reqs, "eth_getTransactionByHash") >= 1
    /\ sw.op = "swap_uniswap_eth_in" =>
          /\ ~sw.checked
          /\ sw.pc \notin {"approved", "nonce", "approve_send", "approve_wait"}
          /\ sw.options = sw.given
          /\ \A i \in 1..Len(sent) :
                sent[i].caller = sw.op /\ sent[i].value = sw.amount
          /\ Len(sent) <= 1
    /\ sw.op = "swap_uniswap" =>
          /\ Submitted => sw.checked
          /\ \A i \in 1..Len(sent) : sent[i].value = 0

\* A swap of ETH went out with the amount as its value, the allowance never
\* looked up.
C28_Witness ==
    /\ sw.op = "swap_uniswap_eth_in" /\ sw.pc = "ret"
    /\ sw.result.status = "Ok" /\ ~sw.checked
    /\ Len(sent) = 1 /\ sent[1].value = sw.amount /\ sw.amount > 0

Validated == {"get_uniswap_price", "swap_uniswap", "swap_uniswap_eth_in"}

TooLow == Err("BadResponse", "Liquidity too low")

\* C30: a get_uniswap_price call that has derived amount_out_min and decoded
\* the quoted amount_out returns BadResponse("Liquidity too low") when
\* amount_out < amount_out_min and Ok(amount_out) otherwise, and returns that
\* error in no other case; with no price limit or a limit of 0 the derived
\* minimum is 0 and the call does not return it.
C30_TooLowExactly ==
    LET compared == sw.pc = "ret" /\ sw.amount_out_min.some /\ node.quote.some
    IN
    sw.op = "get_uniswap_price" =>
        /\ (compared /\ node.quote.v < sw.amount_out_min.v) => sw.result = TooLow
        /\ (compared /\ node.quote.v >= sw.amount_out_min.v) =>
              sw.result = Ok /\ sw.amount_out = node.quote
        /\ sw.result = TooLow =>
              compared /\ node.quote.v < sw.amount_out_min.v
        /\ sw.result = Ok => compared /\ sw.amount_out = node.quote
        /\ (~sw.sqrt_price_limit.some \/ sw.sqrt_price_limit.v = 0) =>
              /\ sw.amount_out_min \in {None, Some(0)}
              /\ sw.result # TooLow

\* A quote of 1 against a derived minimum of 16 was refused.
C30_Witness ==
    /\ sw.op = "get_uniswap_price" /\ sw.pc = "ret" /\ sw.result = TooLow
    /\ node.quote = Some(1) /\ sw.amount_out_min = Some(16)
    /\ sw.sqrt_price_limit = Limit(2)

\* C31: get_sensible_amount_out_from_sqrt_price answers 0 whenever the price
\* limit is None or 0, whatever the amount, the direction and the fee tier,
\* and issues no request on the way: the pool lookup is reached only with a
\* non-zero limit.
C31_ZeroWithoutRequest ==
    /\ [](sw.pc = "pool" =>
            sw.sqrt_price_limit.some /\ sw.sqrt_price_limit.v # 0)
    /\ [][(/\ sw.pc = "min_out" /\ sw'.pc # "min_out"
           /\ ~sw.amount_out_min.some
           /\ ~sw.sqrt_price_limit.some \/ sw.sqrt_price_limit.v = 0)
          => /\ sw'.amount_out_min = Some(0)
             /\ sw'.pc # "pool"
             /\ reqs' = reqs]_vars

\* A swap with a limit of 0 and no caller's minimum went past the derivation
\* with a minimum of 0, its only request the latest block of the deadline.
C31_Witness ==
    /\ sw.op = "swap_uniswap_eth_in" /\ sw.pc = "send"
    /\ sw.sqrt_price_limit = Limit(0) /\ sw.amount_out_min = Some(0)
    /\ sw.fee_uint24 = Some(TT24M1)
    /\ ~check_sync /\ reqs = <<"eth_getBlockByNumber">>

\* C32 as stated: a derivation that has resolved the pool and its two tokens
\* ends with the minimum price * amount when the pool's token1 is token_out
\* and amount / price otherwise.
C32_AsStated ==
    [][(/\ sw.pc = "pool" /\ sw'.pc # "pool"
        /\ sw'.result.at \notin {"getPool", "No such Uniswap pool",
                                 "token0", "token1"})
       => LET price == decode_uniswap_sqrt_price(sw.sqrt_price_limit.v) IN
          /\ sw'.amount_out_min.some
          /\ \/ sw'.amount_out_min.v = price * sw.amount
             \/ sw'.amount_out_min.v * price = sw.amount]_vars

\* C33: a pair returned by simulated_gas_price_and_limit carries the price
\* of eth_gas_price (the median, or the base fee where that is higher) and
\* the limit min(12,450,000, floor(balance / price)): the limit is at most
\* the cap, limit * price is at most the balance, and a limit under the cap
\* is the largest the balance sustains.
C33_LimitWithinBalance ==
    LET balance == calc.args[1]
        median == calc.args[3]
        base == calc.args[4] IN
    (/\ calc.fn = "simulated_gas_price_and_limit" /\ calc.done
     /\ calc.out.status = "Ok")
        => /\ calc.out.price \in {median} \cup (IF base.some THEN {base.v} ELSE {})
           /\ calc.out.price >= median
           /\ base.some => calc.out.price >= base.v
           /\ calc.out.limit <= GAS_LIMIT
           /\ calc.out.limit * calc.out.price <= balance
           /\ calc.out.limit < GAS_LIMIT =>
                 (calc.out.limit + 1) * calc.out.price > balance

\* A balance of 24,900,001 at a price of 2 gave the limit 12,450,000, and
\* nothing more.
C33_Witness ==
    /\ calc.fn = "simulated_gas_price_and_limit" /\ calc.done
    /\ calc.args = <<24900001, "Ok", 1, Some(2)>>
    /\ calc.out = SimulatedGas(GAS_LIMIT, 2)

\* C34 as stated: simulated_gas_price_and_limit returns a pair whenever the
\* gas price retrieval succeeded, whatever the balance and the price, a
\* price of 0 included.
C34_AsStated ==
    (/\ calc.fn = "simulated_gas_price_and_limit" /\ calc.done
     /\ calc.args[2] = "Ok")
        => calc.out.status = "Ok"

\* C38: wait_for_next_block returns Ok only after it was answered a height
\* strictly above the first height it was answered; a failed request never
\* ends the call, which goes round the loop again; the only error it returns
\* is NoBlockProduced carrying the timeout, once the timeout has elapsed with
\* no higher block seen.
C38_NextBlock ==
    /\ [](nb.result = Ok =>
            /\ Len(nb.seen) >= 2
            /\ nb.seen[Len(nb.seen)] > nb.seen[1])
    /\ [](nb.result.status = "Err" =>
            /\ nb.result = NoBlockProduced(nb.timeout)
            /\ nb.elapsed >= nb.timeout)
    /\ [](nb.pc = "ret" => nb.result.status \in {"Ok", "Err"})
    /\ [][(nb.pc = "poll" /\ nb'.errors > nb.errors) => nb'.pc = "loop"]_vars

\* A call whose first request failed went on, saw height 1 and then height 2,
\* and returned Ok.
C38_Witness ==
    /\ nb.pc = "ret" /\ nb.result = Ok
    /\ nb.errors = 1 /\ nb.seen = <<1, 2>> /\ nb.polls = 3

\* C35 as stated, for wait_for_next_block: a failed request ends the call
\* with the error of that request, and no request follows a failed one.
C35_AsStated ==
    nb.errors > 0 =>
        /\ nb.pc = "ret" /\ nb.last = "error"
        /\ nb.result.status = "Err"
        /\ nb.result.err \in {"JsonRpcError", "SyncingNode"}

\* C36: for amount_0 > 0, uniswap_sqrt_price_from_amounts(amount_1,
\* amount_0) returns the r with r^2 <= floor(amount_1 * 2^192 / amount_0)
\* < (r + 1)^2, which is to say r^2 * amount_0 <= amount_1 * 2^192
\* < (r + 1)^2 * amount_0.
C36_FloorSqrt ==
    LET amount_1 == calc.args[1]
        amount_0 == calc.args[2]
        r == calc.out.v
        r1 == BigAdd(r, Big(1))
        n == BigShl(Big(amount_1), Q_SHIFT) IN
    (/\ calc.fn = "uniswap_sqrt_price_from_amounts" /\ calc.done
     /\ amount_0 > 0)
        => /\ calc.out.status = "Ok"
           /\ BigGeq(n, BigMulSmall(BigMul(r, r), amount_0))
           /\ ~BigGeq(n, BigMulSmall(BigMul(r1, r1), amount_0))

\* 10 of token1 against 1 of token0: the root lies strictly between 3 * 2^96
\* and 4 * 2^96, and its lowest limb is not 0.
C36_Witness ==
    /\ calc.fn = "uniswap_sqrt_price_from_amounts" /\ calc.done
    /\ calc.args = <<10, 1>>
    /\ calc.out.status = "Ok"
    /\ calc.out.v[9] = 3 /\ calc.out.v[1] # 0
    /\ \A i \in 10..Limbs : calc.out.v[i] = 0

JoinedMethods ==
    <<"eth_getBalance", "eth_getTransactionCount", "eth_getBlockByNumber">>

\* C39: with check_sync on and the node answering eth_syncing with "syncing",
\* each of eth_get_balance, eth_get_transaction_count, eth_gas_price,
\* eth_call, eth_block_number, eth_get_latest_block and
\* eth_get_finalized_block returns SyncingNode having sent eth_syncing and
\* nothing else, and a send_transaction one of whose initial reads met a
\* syncing node sent no request of that read and returns an error with
\* nothing broadcast; with check_sync off no eth_syncing request is sent and
\* neither the reads nor send_transaction return SyncingNode.
C39_SyncGuard ==
    /\ (calc.done /\ check_sync /\ calc.args[1] = "true") =>
          /\ calc.out.status = "Err" /\ calc.out.err = "SyncingNode"
          /\ reqs = <<"eth_syncing">>
    /\ ~check_sync =>
          /\ Count(reqs, "eth_syncing") = 0
          /\ calc.done => calc.out.err # "SyncingNode"
          /\ st.result.err # "SyncingNode"
    /\ st.result.err = "SyncingNode" =>
          check_sync /\ sent = <<>> /\ st.result.at = "join4"
    /\ (st.pc = "ret" /\ st.result.at = "join4") =>
          \A i \in 1..3 :
              st.joined[i] = "SyncingNode" =>
                  /\ st.result.status = "Err" /\ sent = <<>>
                  /\ Count(reqs, JoinedMethods[i])
                         = Cardinality({j \in 1..3 :
                               /\ JoinedMethods[j] = JoinedMethods[i]
                               /\ st.joined[j] # "SyncingNode"})

\* A send_transaction whose balance read met a syncing node returned
\* SyncingNode without an eth_getBalance request, the other reads answered.
C39_Witness ==
    /\ check_sync /\ st.pc = "ret"
    /\ st.result = Err("SyncingNode", "join4")
    /\ st.joined = <<"SyncingNode", "Ok", "Ok", "Ok">>
    /\ Count(reqs, "eth_getBalance") = 0 /\ Count(reqs, "eth_syncing") = 3
    /\ sent = <<>>

\* C40: the downscale of send_transaction never divides by zero: whenever the
\* division balance / gas_limit has been performed its divisor, the scaled gas
\* limit, is positive, and no call ends in the panic of a division by zero.
C40_NoZeroDivisor ==
    /\ st.divisor.some => st.divisor.v > 0
    /\ st.result.status # "Panic"

\* A call whose gas limit a GasLimitMultiplier of 0 has scaled to 0 has passed
\* the downscale without a division.
C40_Witness ==
    /\ st.pc \in {"valid1", "sign1", "valid2", "sign2", "send"}
    /\ st.gas_limit = 0 /\ st.gas_limit_multiplier = 0
    /\ st.max_fee_per_gas > 0 /\ ~st.divisor.some

====
